---- MODULE Spec2Model ----
(***************************************************************************)
(* Job coordinator of the video pipeline: the two Celery tasks             *)
(* process_youtube_video and process_discord_video (src/src/tasks.py), the *)
(* catalog client (src/src/notion_client.py), the object-store client      *)
(* (src/src/drive_manager.py) and the channel policy table                 *)
(* (src/config/notion_config.py).                                          *)
(*                                                                         *)
(* One job is followed through its attempts.  Every external call is a     *)
(* step whose outcome (success, None, exception) is chosen by the          *)
(* environment; the coordinator's reaction is the code's.                  *)
(***************************************************************************)
EXTENDS Integers, Sequences, FiniteSets, TLC

\* ------------------------------------------------------------------ bounds
\* number of (text-bearing) chunks a stream may yield before it ends
MaxChunks == 1
\* CELERY_TASK_MAX_RETRIES is read from the environment (default 3); the
\* model runs it small
CELERY_TASK_MAX_RETRIES == 1

\* ------------------------------------------------- channel policy table
\* one channel for each kind of entry: the Videos Database entries
\* (market-outlook), the two Drive Uploads entries, which differ in
\* skip_compression only (drive-uploads-skip sets it), the update_origin
\* entry (audit-process), and a channel without an entry
Channels ==
  {"market-outlook", "drive-uploads-skip", "audit-process", "unmapped"}

VideosFieldMap ==
  {"name", "date", "video_date_time", "video_link", "live_video_url",
   "video_id", "youtube_channel", "drive_folder", "drive_folder_link",
   "video_file", "audio_file", "transcript_file", "transcript_srt_file",
   "transcript_text", "discord_channel", "status", "length_min"}

UploadsFieldMap ==
  {"name", "status", "video_file", "drive_folder_link", "audio_file",
   "transcript_text", "transcript_file", "transcript_srt_file",
   "video_date_time", "length_min", "processing_time", "process_errors"}

AuditFieldMap ==
  {"name", "video_date_time", "video_url", "video_id", "youtube_channel",
   "drive_folder_link", "video_file", "audio_file", "transcript_file",
   "transcript_srt_file", "transcript_text", "status",
   "youtube_listing_status", "length_min", "processing_time",
   "process_errors"}

\* CHANNEL_TO_DATABASE_MAPPING: the keys of each field_map, the action, the
\* status written on completion and the skip_compression flag (False for an
\* entry that does not set it).  database is the catalog database a created
\* page lands in.
CHANNEL_TO_DATABASE_MAPPING ==
  [c \in Channels \ {"unmapped"} |->
     CASE c = "market-outlook" ->
            [action_type |-> "create_new_page", database |-> "videos",
             field_map |-> VideosFieldMap, status_value |-> "complete",
             skip_compression |-> FALSE]
       [] c = "drive-uploads-skip" ->
            [action_type |-> "create_new_page", database |-> "uploads",
             field_map |-> UploadsFieldMap, status_value |-> "Success",
             skip_compression |-> TRUE]
       [] c = "audit-process" ->
            [action_type |-> "update_origin", database |-> "None",
             field_map |-> AuditFieldMap, status_value |-> "Complete",
             skip_compression |-> FALSE]]

NoPolicy ==
  [action_type |-> "None", database |-> "None", field_map |-> {},
   status_value |-> "None", skip_compression |-> FALSE]

\* get_destination_database: a dictionary lookup, None for an unknown channel
get_destination_database(c) ==
  IF c \in DOMAIN CHANNEL_TO_DATABASE_MAPPING
    THEN CHANNEL_TO_DATABASE_MAPPING[c] ELSE NoPolicy

\* the names of the status ladder (update_origin only)
StatusLadder ==
  <<"Processing", "Downloading", "Transcribing", "Uploading to Drive",
    "Complete">>

\* ------------------------------------------------------------------ state
VARIABLES
  kind,            \* "youtube" (process_youtube_video) or "discord"
  channel,         \* the task's channel argument
  parentFolder,    \* where a parent folder id comes from: "override" (task
                   \* argument), "config" (policy) or "none" (neither set)
  COMPRESSION_ENABLED, \* config.settings flag, fixed per process
  attempt,         \* number of retries already made (self.request.retries)
  pc,              \* position of the running attempt
  exc,             \* exception being handled: "None", "Exception",
                   \* "SoftTimeLimitExceeded"
  timedOut,        \* the soft time limit has fired in this attempt
  L,               \* the task's local variables
  scratch,         \* files in TEMP_DOWNLOAD_DIR written by the running
                   \* attempt (a later attempt writes the same names)
  row,             \* the submitter's catalog row
  pages,           \* pages created in the destination databases
  ev,              \* what this attempt has done so far (calls made)
  statusLog,       \* values this attempt sent to the row's status column
  result,          \* what the attempt returned: status "none" (running),
                   \* "success", "skipped" or "raised", and the
                   \* processing_mode and chunks_processed of a success
  jobState,        \* "running", "retry", "succeeded", "failed"
  \* --- one DriveManager call at a time (SpecDrive)
  dFiles,          \* copies of each file name held by the target folder
  dPhase,          \* "idle", "probe", "upload", "returned"
  dName,           \* media_file.filename of the running call
  dExists,         \* what file_exists answered in the running call
  dAttempt,        \* retry_on_failure's loop variable `attempt`
  dTries,          \* executions of upload_file's body in the running call
  dSleeps,         \* the time.sleep arguments of the running call, in order
  dRet,            \* what upload_if_not_exists returned
  dCalls,          \* calls made so far
  \* --- one request to POST /webhook/process-video (SpecWebhook)
  WEBHOOK_SECRET,  \* config.settings.WEBHOOK_SECRET of the server
  hHeader,         \* the request's X-Webhook-Secret header ("None": absent)
  hBody,           \* the JSON body's fields ("None": absent)
  hPayload,        \* the WebhookPayload built from the body
  hPhase,          \* "received", "parsed", "responded"
  hResponse,       \* HTTP status code answered, 0 before the answer
  hQueue,          \* tasks handed to the queue by apply_async
  \* --- two runs of process_youtube_video for one URL (SpecWorkers); they
  \* share the catalog (pages) and the object store
  wPc,             \* position of each run
  wAfter,          \* the run started after the other one had ended
  wFolder,         \* drive_folder_id of each run, 0 before it has one
  wText,           \* the run's transcription produced text
  wUploaded,       \* artifacts each run has uploaded
  wUrls,           \* artifacts each run holds a Drive URL for
  gFolders,        \* folders created for the video in the parent folder
  gFiles,          \* <<folder, artifact>> files held by the object store
  \* --- one call of AudioTranscriber.transcribe_stream (SpecStream); times
  \* are in ticks, buffer lengths in read units
  tPhase,          \* "idle", "header", "loop", "returned"
  tBuffer,         \* len(audio_buffer)
  tOffset,         \* time_offset
  tText,           \* all_text is not empty
  tSegments,       \* all_segments: the segment lists yielded so far, joined
  tChunks,         \* chunks_processed
  tEnd,            \* what ended the loop: "None", "header", "eof",
                   \* "BrokenPipeError", "Exception"
  tRead,           \* units of PCM data read from the pipe after the header
  tRequest,        \* read_size of the last read of the loop, 0 before it
  tSubmitted,      \* the buffers handed to the speech model, in order: the
                   \* first and last unit of each and its time_offset
  tResult,         \* the StreamingTranscriptionResult returned
  \* --- one catalog write built from a field map (SpecCatalog)
  cw_field_map,    \* field_map: the <<logical_key, column_name>> pairs in
                   \* the order of the dict
  cw_data,         \* data: the value of each logical key, "None" when absent
  cw_path,         \* "none", "create_video_page", "update_origin" (video
                   \* host task), "update_origin_discord" (chat task)
  cw_properties,   \* properties: the property type written to each column
  \* --- one call of add_transcript_dropdown (SpecDropdown)
  transcript_text, \* the text, a sequence of characters
  children,        \* the content of each paragraph block of the toggle
  dropdown_return, \* "None" before the call, then "True" or "False"
  \* --- one call of sanitize_filename (SpecSanitize)
  filename,        \* the title, a sequence of characters
  safe_title,      \* the returned string
  sanitized        \* the call has returned

jobVars ==
  <<kind, channel, parentFolder, COMPRESSION_ENABLED, attempt, pc, exc,
    timedOut, L, scratch, row, pages, ev, statusLog, result, jobState>>

driveVars ==
  <<dFiles, dPhase, dName, dExists, dAttempt, dTries, dSleeps, dRet, dCalls>>

hookVars ==
  <<WEBHOOK_SECRET, hHeader, hBody, hPayload, hPhase, hResponse, hQueue>>

workerVars ==
  <<wPc, wAfter, wFolder, wText, wUploaded, wUrls, gFolders, gFiles>>

streamVars ==
  <<tPhase, tBuffer, tOffset, tText, tSegments, tChunks, tEnd, tRead,
    tRequest, tSubmitted, tResult>>

catalogVars == <<cw_field_map, cw_data, cw_path, cw_properties>>

dropdownVars == <<transcript_text, children, dropdown_return>>

sanitizeVars == <<filename, safe_title, sanitized>>

\* the calls of pure helpers checked on their own
pureVars == <<catalogVars, dropdownVars, sanitizeVars>>

\* the state of the components that a job of Spec does not step through
outside == <<driveVars, hookVars, workerVars, streamVars, pureVars>>

vars == <<jobVars, outside>>

inputs == <<kind, channel, parentFolder, COMPRESSION_ENABLED>>

\* the locals at task entry (tasks.py 119-127 and the first assignments)
FreshLocals ==
  [action_type |-> "None", field_map |-> {}, notion_client |-> FALSE,
   service |-> FALSE, drive_folder_id |-> FALSE,
   streaming_failed |-> FALSE, chunks_count |-> 0,
   transcription_text |-> FALSE, all_segments |-> FALSE,
   video_path |-> "None", final_video_path |-> "None",
   audio_path |-> "None", extracted_audio_path |-> "None", urls |-> {},
   notion_page |-> FALSE]

\* the locals an exception handler of the task still reads: action_type,
\* notion_client and field_map
Unwound ==
  [FreshLocals EXCEPT !.action_type = L.action_type,
                      !.field_map = L.field_map,
                      !.notion_client = L.notion_client]

NoResult == [status |-> "none", processing_mode |-> "None", chunks_processed |-> 0]

FreshEvents ==
  [probes |-> 0, folders |-> 0, streams |-> 0, downloads |-> 0,
   uploads |-> {}, produced |-> {}, creates |-> 0,
   updates |-> 0, toggles |-> 0, links |-> 0, errorWrites |-> 0,
   statusWrites |-> 0, uploadPhaseDone |-> FALSE, fallbackEntered |-> FALSE,
   transcoderOk |-> FALSE, pipeBroken |-> FALSE, created |-> 0,
   updated |-> 0, writeRefused |-> FALSE]

InitialPages ==
  { <<>>,
    <<[database |-> "videos", link |-> TRUE, transcript |-> FALSE,
       status |-> "complete"]>>,
    <<[database |-> "videos", link |-> TRUE, transcript |-> TRUE,
       status |-> "complete"]>> }

InitialRows ==
  { [status |-> "None", url |-> u, transcript |-> t,
     transcript_url |-> FALSE] : u \in {FALSE}, t \in {FALSE} }

JobInit ==
  /\ kind \in {"youtube", "discord"}
  /\ channel \in Channels
  /\ parentFolder \in {"override", "config", "none"}
  /\ COMPRESSION_ENABLED \in BOOLEAN
  /\ attempt = 0
  /\ pc = "validate"
  /\ exc = "None"
  /\ timedOut = FALSE
  /\ L = FreshLocals
  /\ scratch = {}
  /\ row \in InitialRows
  /\ pages \in InitialPages
  /\ ev = FreshEvents
  /\ statusLog = <<>>
  /\ result = NoResult
  /\ jobState = "running"

\* ------------------------------------------------------------ DriveManager
\* file names of the artifacts a call may carry
FileNames == {"video.mp4", "transcript.txt"}

\* calls followed in SpecDrive
MaxCalls == 2

DRIVE_UPLOAD_MAX_RETRIES == 3
DRIVE_UPLOAD_RETRY_DELAY == 2

NoReturn == [uploaded |-> FALSE, drive_file |-> "pending"]

\* no call is running
DriveAtRest ==
  /\ dPhase = "idle" /\ dName = "None" /\ dExists = FALSE
  /\ dAttempt = 0 /\ dTries = 0 /\ dSleeps = <<>> /\ dRet = NoReturn

\* ---------------------------------------------------------- webhook server
NoPayload ==
  [notion_page_id |-> "None", video_url |-> "None", channel_name |-> "None",
   discord_entry_id |-> "None", youtube_url |-> "None", channel |-> "None"]

\* no request is in flight
HookAtRest ==
  /\ WEBHOOK_SECRET = "change-this-secret-in-production"
  /\ hHeader = "None" /\ hBody = NoPayload /\ hPayload = NoPayload
  /\ hPhase = "responded" /\ hResponse = 0 /\ hQueue = <<>>

\* ------------------------------------------------- two runs for one URL
Workers == {"w1", "w2"}

\* no run has started
WorkersAtRest ==
  /\ wPc = [w \in Workers |-> "idle"]
  /\ wAfter = [w \in Workers |-> FALSE]
  /\ wFolder = [w \in Workers |-> 0]
  /\ wText = [w \in Workers |-> FALSE]
  /\ wUploaded = [w \in Workers |-> {}]
  /\ wUrls = [w \in Workers |-> {}]
  /\ gFolders = 0
  /\ gFiles = {}

\* ------------------------------------------------ streaming transcriber
\* STREAMING_CHUNK_DURATION (30 s) and STREAMING_MIN_AUDIO_DURATION (5 s)
\* come from the environment, as does STREAMING_BUFFER_SIZE (64 KB, less
\* than a chunk); the model runs them small, one read unit of the pipe being
\* one tick of audio
STREAMING_CHUNK_DURATION == 3
STREAMING_MIN_AUDIO_DURATION == 2
STREAMING_BUFFER_SIZE == 2
\* full chunks a stream may carry before it ends
MaxStreamChunks == 2
\* segments the speech model returns for one buffer
MaxSegments == 2

NoStreamResult ==
  [text |-> FALSE, segments |-> <<>>, chunks_processed |-> 0,
   stream_completed |-> FALSE]

\* no call of transcribe_stream is running
StreamAtRest ==
  /\ tPhase = "idle" /\ tBuffer = 0 /\ tOffset = 0 /\ tText = FALSE
  /\ tSegments = <<>> /\ tChunks = 0 /\ tEnd = "None"
  /\ tRead = 0 /\ tRequest = 0 /\ tSubmitted = <<>>
  /\ tResult = NoStreamResult

\* no catalog write is being built
CatalogAtRest ==
  /\ cw_field_map = <<>> /\ cw_data = <<>> /\ cw_path = "none"
  /\ cw_properties = <<>>

\* no call of add_transcript_dropdown is running
DropdownAtRest ==
  transcript_text = <<>> /\ children = <<>> /\ dropdown_return = "None"

\* no call of sanitize_filename is running
SanitizeAtRest == filename = <<>> /\ safe_title = <<>> /\ sanitized = FALSE

PureAtRest == CatalogAtRest /\ DropdownAtRest /\ SanitizeAtRest

Init ==
  /\ JobInit
  /\ StreamAtRest
  /\ PureAtRest
  /\ dFiles = [n \in FileNames |-> 0]
  /\ dCalls = 0
  /\ DriveAtRest
  /\ HookAtRest
  /\ WorkersAtRest

\* ---------------------------------------------------------- catalog client
\* update_status_field letting the exception of the catalog call out
update_status_field_raising(status_value, field_map, ok) ==
  IF "status" \notin field_map
    THEN [row |-> row, statusLog |-> statusLog, ev |-> ev, raised |-> FALSE]
    ELSE [row |-> IF ok THEN [row EXCEPT !.status = status_value] ELSE row,
          statusLog |-> Append(statusLog, status_value),
          ev |-> [ev EXCEPT !.statusWrites = @ + 1,
                            !.writeRefused = @ \/ ~ok],
          raised |-> ~ok]

\* NotionClient.update_status_field: one pages.update carrying the status
\* column; every exception of the call is caught and turned into False.
\* ok is the environment's answer to the pages.update call.
update_status_field(status_value, field_map, ok) ==
  IF "status" \notin field_map
    THEN [row |-> row, statusLog |-> statusLog, ev |-> ev, raised |-> FALSE]
    ELSE [row |-> IF ok THEN [row EXCEPT !.status = status_value] ELSE row,
          statusLog |-> Append(statusLog, status_value),
          ev |-> [ev EXCEPT !.statusWrites = @ + 1,
                            !.writeRefused = @ \/ ~ok],
          raised |-> FALSE]

\* NotionClient.update_error_field: one pages.update carrying the error
\* text and, when the field map has a status column, the status Error.
update_error_field(field_map, ok) ==
  IF "process_errors" \notin field_map
    THEN [row |-> row, statusLog |-> statusLog, ev |-> ev, raised |-> FALSE]
    ELSE [row |-> IF ok
                    THEN [row EXCEPT !.status = IF "status" \in field_map
                                                  THEN "Error" ELSE @]
                    ELSE row,
          statusLog |-> IF "status" \in field_map
                          THEN Append(statusLog, "Error") ELSE statusLog,
          ev |-> [ev EXCEPT !.errorWrites = @ + 1,
                            !.writeRefused = @ \/ ~ok],
          raised |-> FALSE]

\* NotionClient.find_video_by_url: the Videos Database is searched by its
\* "Video Link" column, then the Discord Message Database by "URL"; a
\* query that raises is skipped.  The first match decides has_transcript.
find_video_by_url(q1ok, q2ok) ==
  LET hits == SelectSeq(pages, LAMBDA p : p.database = "videos" /\ p.link)
  IN  IF q1ok /\ hits # <<>>
        THEN IF hits[1].transcript THEN "has_transcript" ELSE "no_transcript"
        ELSE IF q2ok /\ row.url
               THEN IF row.transcript THEN "has_transcript"
                                      ELSE "no_transcript"
               ELSE "None"

\* the page NotionClient.create_video_page builds from field_map and data:
\* a key contributes a property when it is mapped and its value is not None
create_video_page(database, field_map, data) ==
  [database |-> database,
   link |-> "video_link" \in field_map /\ "video_link" \in data,
   transcript |-> \/ "transcript_file" \in field_map /\ "transcript_file" \in data
                  \/ "transcript_srt_file" \in field_map
                       /\ "transcript_srt_file" \in data,
   status |-> IF "status" \in field_map /\ "status" \in data
                THEN get_destination_database(channel).status_value
                ELSE "None"]

\* ------------------------------------------------------ object-store client
\* upload_if_not_exists reporting an upload for a file that was found
upload_if_not_exists_reuploading(exists, upOk) ==
  IF exists \/ upOk THEN [uploaded |-> TRUE, drive_file |-> TRUE]
  ELSE [uploaded |-> FALSE, drive_file |-> FALSE]

\* DriveManager.upload_if_not_exists: (uploaded, drive_file).  exists is the
\* by-name probe's answer, upOk whether upload_file succeeded within its
\* retries; the exception of a failed upload is caught.
upload_if_not_exists(exists, upOk) ==
  IF exists THEN [uploaded |-> FALSE, drive_file |-> TRUE]
  ELSE IF upOk THEN [uploaded |-> TRUE, drive_file |-> TRUE]
  ELSE [uploaded |-> FALSE, drive_file |-> FALSE]

\* ------------------------------------------------------------- transcriber
\* AudioTranscriber.transcribe_stream, seen from its caller: how the read
\* loop ends.  End of stream breaks the loop; BrokenPipeError and every
\* other exception of the loop are caught inside the generator, which
\* then returns normally.
transcribe_stream_end(how) ==
  CASE how = "eof" -> "returned"
    [] how = "broken_pipe" -> "returned"
    [] how = "transcoder_exit" -> "returned"

\* the answers the catalog can give to a status or error write: the write
\* is issued only under update_origin
WriteOutcomes ==
  IF L.action_type = "update_origin" THEN BOOLEAN ELSE {TRUE}

\* (exists, upOk): a file found by name is not uploaded
UploadOutcomes == {<<TRUE, TRUE>>, <<FALSE, TRUE>>, <<FALSE, FALSE>>}

\* ------------------------------------------- process_youtube_video (tasks.py)
At(k, p) == kind = k /\ jobState = "running" /\ pc = p

\* 1. validate and get configuration
YValidate ==
  /\ At("youtube", "validate")
  /\ LET destination_db == get_destination_database(channel)
     IN  IF destination_db = NoPolicy
           THEN /\ pc' = "except" /\ exc' = "Exception" /\ L' = L
           ELSE /\ L' = [L EXCEPT !.action_type = destination_db.action_type,
                                   !.field_map = destination_db.field_map]
                /\ IF /\ destination_db.action_type = "create_new_page"
                      /\ destination_db.database = "None"
                     THEN pc' = "except" /\ exc' = "Exception"
                     ELSE pc' = "init" /\ exc' = exc
  /\ UNCHANGED <<outside, inputs, attempt, timedOut, scratch, row, pages, ev,
                 statusLog, result, jobState>>

\* 2. initialize components: downloader, transcriber, drive manager, catalog
\* client, in that order; notion_client is bound only when all constructors
\* returned.  DriveManager() may come back with service = None.
YInit ==
  /\ At("youtube", "init")
  /\ \E o \in {"ok", "no_service", "raise"} :
       IF o = "raise"
         THEN pc' = "except" /\ exc' = "Exception" /\ L' = L
         ELSE /\ L' = [L EXCEPT !.notion_client = TRUE,
                                 !.service = (o = "ok")]
              /\ pc' = "status_processing" /\ exc' = exc
  /\ UNCHANGED <<outside, inputs, attempt, timedOut, scratch, row, pages, ev,
                 statusLog, result, jobState>>

\* 2.1 status Processing (update_origin only), then the Drive service check
YStatusProcessing ==
  /\ At("youtube", "status_processing")
  /\ \E ok \in WriteOutcomes :
       LET w == IF L.action_type = "update_origin"
                  THEN update_status_field("Processing", L.field_map, ok)
                  ELSE [row |-> row, statusLog |-> statusLog, ev |-> ev,
                        raised |-> FALSE]
       IN  /\ row' = w.row /\ statusLog' = w.statusLog /\ ev' = w.ev
           /\ IF w.raised \/ ~L.service
                THEN pc' = "except" /\ exc' = "Exception"
                ELSE pc' = "dedup" /\ exc' = exc
  /\ UNCHANGED <<outside, inputs, attempt, timedOut, L, scratch, pages, result, jobState>>

\* the dedup probe placed after the creation of the per-video folder
YDedup_after_folder ==
  /\ At("youtube", "dedup")
  /\ \E q1ok, q2ok \in BOOLEAN :
       LET existing_video == find_video_by_url(q1ok, q2ok)
       IN  /\ ev' = [ev EXCEPT !.folders = @ + 1, !.probes = @ + 1]
           /\ IF existing_video = "has_transcript"
                THEN /\ pc' = "done" /\ L' = FreshLocals
                     /\ result' = [NoResult EXCEPT !.status = "skipped"]
                     /\ jobState' = "succeeded"
                ELSE /\ pc' = "video_info" /\ L' = L
                     /\ result' = result /\ jobState' = jobState
  /\ UNCHANGED <<outside, inputs, attempt, exc, timedOut, scratch, row, pages, statusLog>>

\* 3. dedup probe: a match that has a transcript ends the attempt
YDedup ==
  /\ At("youtube", "dedup")
  /\ \E q1ok, q2ok \in BOOLEAN :
       LET existing_video == find_video_by_url(q1ok, q2ok)
       IN  /\ ev' = [ev EXCEPT !.probes = @ + 1]
           /\ IF existing_video = "has_transcript"
                THEN /\ pc' = "done" /\ L' = FreshLocals
                     /\ result' = [NoResult EXCEPT !.status = "skipped"]
                     /\ jobState' = "succeeded"
                ELSE /\ pc' = "video_info" /\ L' = L
                     /\ result' = result /\ jobState' = jobState
  /\ UNCHANGED <<outside, inputs, attempt, exc, timedOut, scratch, row, pages, statusLog>>

\* 4. get video information
YVideoInfo ==
  /\ At("youtube", "video_info")
  /\ \E ok \in BOOLEAN :
       IF ok THEN pc' = "resolve_folder" /\ exc' = exc
             ELSE pc' = "except" /\ exc' = "Exception"
  /\ UNCHANGED <<outside, inputs, attempt, timedOut, L, scratch, row, pages, ev,
                 statusLog, result, jobState>>

\* 5. resolve the parent folder: the task argument, else the policy's
YResolveFolder ==
  /\ At("youtube", "resolve_folder")
  /\ IF parentFolder = "none"
       THEN pc' = "except" /\ exc' = "Exception"
       ELSE pc' = "create_folder" /\ exc' = exc
  /\ UNCHANGED <<outside, inputs, attempt, timedOut, L, scratch, row, pages, ev,
                 statusLog, result, jobState>>

\* 6. create the per-video folder
YCreateFolder ==
  /\ At("youtube", "create_folder")
  /\ ev' = [ev EXCEPT !.folders = @ + 1]
  /\ \E ok \in BOOLEAN :
       IF ok
         THEN /\ L' = [L EXCEPT !.drive_folder_id = TRUE]
              /\ pc' = "status_downloading" /\ exc' = exc
         ELSE /\ L' = L
              /\ pc' = "except" /\ exc' = "Exception"
  /\ UNCHANGED <<outside, inputs, attempt, timedOut, scratch, row, pages, statusLog, result, jobState>>

\* 7. status Downloading (update_origin only)
YStatusDownloading ==
  /\ At("youtube", "status_downloading")
  /\ \E ok \in WriteOutcomes :
       LET w == IF L.action_type = "update_origin"
                  THEN update_status_field("Downloading", L.field_map, ok)
                  ELSE [row |-> row, statusLog |-> statusLog, ev |-> ev,
                        raised |-> FALSE]
       IN  /\ row' = w.row /\ statusLog' = w.statusLog /\ ev' = w.ev
           /\ IF w.raised THEN pc' = "except" /\ exc' = "Exception"
                          ELSE pc' = "stream_start" /\ exc' = exc
  /\ UNCHANGED <<outside, inputs, attempt, timedOut, L, scratch, pages, result, jobState>>

\* 7. start the stream: stream_and_capture returns the transcoder handle and
\* the PCM pipe, or (None, None, None), which the coordinator turns into an
\* exception caught by its own inner handler (streaming_failed)
YStreamStart ==
  /\ At("youtube", "stream_start")
  /\ \E ok \in BOOLEAN :
       /\ ev' = [ev EXCEPT !.streams = @ + 1,
                           !.produced = IF ok THEN @ \cup {"video"} ELSE @]
       /\ IF ok
         THEN /\ L' = [L EXCEPT !.video_path = "mkv"]
              /\ scratch' = scratch \cup {"mkv"}
              /\ pc' = "status_transcribing"
         ELSE /\ L' = [L EXCEPT !.streaming_failed = TRUE]
              /\ scratch' = scratch
              /\ pc' = "fallback_video"
  /\ UNCHANGED <<outside, inputs, attempt, exc, timedOut, row, pages, statusLog, result, jobState>>

\* status Transcribing (update_origin only), inside the streaming try block:
\* an exception here is a streaming failure
YStatusTranscribing ==
  /\ At("youtube", "status_transcribing")
  /\ \E ok \in WriteOutcomes :
       LET w == IF L.action_type = "update_origin"
                  THEN update_status_field("Transcribing", L.field_map, ok)
                  ELSE [row |-> row, statusLog |-> statusLog, ev |-> ev,
                        raised |-> FALSE]
       IN  /\ row' = w.row /\ statusLog' = w.statusLog /\ ev' = w.ev
           /\ IF w.raised
                THEN /\ L' = [L EXCEPT !.streaming_failed = TRUE]
                     /\ pc' = "fallback_video"
                ELSE L' = L /\ pc' = "stream_transcribe"
  /\ UNCHANGED <<outside, inputs, attempt, exc, timedOut, scratch, pages, result, jobState>>

\* one chunk yielded by transcribe_stream: only chunks with text are yielded,
\* and a chunk with text has segments
YStreamChunk ==
  /\ At("youtube", "stream_transcribe")
  /\ L.chunks_count < MaxChunks
  /\ L' = [L EXCEPT !.transcription_text = TRUE, !.all_segments = TRUE,
                     !.chunks_count = @ + 1]
  /\ ev' = [ev EXCEPT !.transcoderOk = TRUE]
  /\ UNCHANGED <<outside, inputs, attempt, pc, exc, timedOut, scratch, row, pages,
                 statusLog, result, jobState>>

\* the generator ends (end of stream, broken pipe, transcoder gone); the
\* coordinator waits for the transcoder and reads its stderr
YStreamEnd ==
  /\ At("youtube", "stream_transcribe")
  /\ \E how \in {"eof", "broken_pipe", "transcoder_exit"} :
       /\ ev' = [ev EXCEPT !.pipeBroken = (how # "eof" /\ L.chunks_count > 0)]
       /\ IF transcribe_stream_end(how) = "raised"
            THEN /\ L' = [L EXCEPT !.streaming_failed = TRUE]
                 /\ pc' = "fallback_video"
            ELSE L' = L /\ pc' = "status_uploading"
  /\ UNCHANGED <<outside, inputs, attempt, exc, timedOut, scratch, row, pages,
                 statusLog, result, jobState>>

\* a fallback that keeps what streaming accumulated
reset_variables_paths_only(locals) ==
  [locals EXCEPT !.video_path = "None", !.audio_path = "None"]

\* "Reset variables": the paths and the streaming accumulators
reset_variables(locals) ==
  [locals EXCEPT !.video_path = "None", !.audio_path = "None",
                 !.transcription_text = FALSE, !.all_segments = FALSE,
                 !.chunks_count = 0]

\* 7b. fallback: the accumulators are reset, then the video is downloaded
\* whole; a failed download leaves video_path = None
YFallbackVideo ==
  /\ At("youtube", "fallback_video")
  /\ L.streaming_failed
  /\ \E ok \in BOOLEAN :
       /\ L' = [reset_variables(L) EXCEPT
                  !.video_path = IF ok THEN "mp4" ELSE "None"]
       /\ scratch' = IF ok THEN scratch \cup {"mp4"} ELSE scratch
       /\ ev' = [ev EXCEPT !.downloads = @ + 1, !.fallbackEntered = TRUE,
                           !.produced = IF ok THEN (@ \ {"audio"}) \cup {"video"}
                                              ELSE @ \ {"video", "audio"}]
  /\ pc' = "fallback_audio"
  /\ UNCHANGED <<outside, inputs, attempt, exc, timedOut, row, pages, statusLog, result, jobState>>

\* fallback: the audio is downloaded whole (an mp3 made by the transcoder);
\* when it exists the status Transcribing is written, otherwise the
\* transcription is skipped
YFallbackAudio ==
  /\ At("youtube", "fallback_audio")
  /\ \E got, ok \in BOOLEAN :
       /\ LET w == IF got /\ L.action_type = "update_origin"
                     THEN update_status_field("Transcribing", L.field_map, ok)
                     ELSE [row |-> row, statusLog |-> statusLog, ev |-> ev,
                           raised |-> FALSE]
          IN  /\ row' = w.row /\ statusLog' = w.statusLog
              /\ ev' = [w.ev EXCEPT !.downloads = @ + 1,
                                    !.produced = IF got THEN @ \cup {"audio"}
                                                        ELSE @,
                                    !.transcoderOk = @ \/ got]
              /\ L' = [L EXCEPT !.audio_path = IF got THEN "mp3" ELSE "None"]
              /\ scratch' = IF got THEN scratch \cup {"mp3"} ELSE scratch
              /\ IF w.raised THEN pc' = "except" /\ exc' = "Exception"
                 ELSE /\ pc' = IF got THEN "fallback_transcribe"
                                      ELSE "status_uploading"
                      /\ exc' = exc
  /\ UNCHANGED <<outside, inputs, attempt, timedOut, pages, result,
                 jobState>>

\* fallback: whole-file transcription; None (the transcriber caught an
\* error), a result without text, or a result with text and segments
YFallbackTranscribe ==
  /\ At("youtube", "fallback_transcribe")
  /\ \E r \in {"None", "empty", "text"} :
       L' = [L EXCEPT !.transcription_text = (r = "text"),
                      !.all_segments = (r = "text")]
  /\ pc' = "status_uploading"
  /\ UNCHANGED <<outside, inputs, attempt, exc, timedOut, scratch, row, pages, ev, statusLog, result, jobState>>

\* 8. status Uploading to Drive (update_origin only); final_video_path starts
\* as video_path
YStatusUploading ==
  /\ At("youtube", "status_uploading")
  /\ \E ok \in WriteOutcomes :
       LET w == IF L.action_type = "update_origin"
                  THEN update_status_field("Uploading to Drive", L.field_map, ok)
                  ELSE [row |-> row, statusLog |-> statusLog, ev |-> ev,
                        raised |-> FALSE]
       IN  /\ row' = w.row /\ statusLog' = w.statusLog
           /\ ev' = w.ev
           /\ IF w.raised THEN pc' = "except" /\ exc' = "Exception"
                          ELSE pc' = "convert" /\ exc' = exc
  /\ L' = [L EXCEPT !.final_video_path = L.video_path]
  /\ UNCHANGED <<outside, inputs, attempt, timedOut, scratch, pages, result, jobState>>

\* an .mkv (streaming) is remuxed to .mp4; on success the .mkv is removed,
\* on failure the .mkv is kept as the final video.  Without a video file the
\* whole preparation block is skipped.
YConvert ==
  /\ At("youtube", "convert")
  /\ IF L.video_path # "None" /\ L.video_path \in scratch
       THEN /\ pc' = "compress"
            /\ IF L.video_path = "mkv"
                 THEN \E ok \in BOOLEAN :
                        /\ ev' = [ev EXCEPT !.transcoderOk = @ \/ ok]
                        /\ IF ok
                             THEN /\ L' = [L EXCEPT !.final_video_path = "mp4"]
                                  /\ scratch' = (scratch \cup {"mp4"}) \ {"mkv"}
                             ELSE L' = L /\ scratch' = scratch
                 ELSE L' = L /\ scratch' = scratch /\ ev' = ev
       ELSE pc' = "upload_video" /\ L' = L /\ scratch' = scratch /\ ev' = ev
  /\ UNCHANGED <<outside, inputs, attempt, exc, timedOut, row, pages,
                 statusLog, result, jobState>>

\* a compression whose output is written but never becomes the final video
YCompress_keeping_original ==
  /\ At("youtube", "compress")
  /\ IF COMPRESSION_ENABLED
       THEN \E ok \in BOOLEAN :
              /\ ev' = [ev EXCEPT !.transcoderOk = @ \/ ok]
              /\ scratch' = IF ok THEN scratch \cup {"compressed"}
                                  ELSE scratch
       ELSE scratch' = scratch /\ ev' = ev
  /\ L' = L
  /\ pc' = "extract_audio"
  /\ UNCHANGED <<outside, inputs, attempt, exc, timedOut, row, pages,
                 statusLog, result, jobState>>

\* 7.5 compression when COMPRESSION_ENABLED: on success the input is removed
\* and the compressed file becomes the final video, on failure the input
\* stays
YCompress ==
  /\ At("youtube", "compress")
  /\ IF COMPRESSION_ENABLED
       THEN \E ok \in BOOLEAN :
              /\ ev' = [ev EXCEPT !.transcoderOk = @ \/ ok]
              /\ IF ok
                   THEN /\ scratch' = (scratch \ {L.final_video_path})
                                         \cup {"compressed"}
                        /\ L' = [L EXCEPT !.final_video_path = "compressed"]
                   ELSE L' = L /\ scratch' = scratch
       ELSE L' = L /\ scratch' = scratch /\ ev' = ev
  /\ pc' = "extract_audio"
  /\ UNCHANGED <<outside, inputs, attempt, exc, timedOut, row, pages,
                 statusLog, result, jobState>>

\* the audio is extracted from the final video when no audio file is held
YExtractAudio ==
  /\ At("youtube", "extract_audio")
  /\ IF L.audio_path = "None" \/ L.audio_path \notin scratch
       THEN \E ok \in BOOLEAN :
              /\ IF ok
                   THEN /\ L' = [L EXCEPT !.extracted_audio_path = "mp3"]
                        /\ scratch' = scratch \cup {"mp3"}
                        /\ ev' = [ev EXCEPT !.produced = @ \cup {"audio"},
                                            !.transcoderOk = TRUE]
                   ELSE L' = L /\ scratch' = scratch /\ ev' = ev
       ELSE L' = L /\ scratch' = scratch /\ ev' = ev
  /\ pc' = "upload_video"
  /\ UNCHANGED <<outside, inputs, attempt, exc, timedOut, row, pages, statusLog, result, jobState>>

\* upload the final video when it exists; the local file is removed whatever
\* the outcome
YUploadVideo ==
  /\ At("youtube", "upload_video")
  /\ IF L.final_video_path # "None" /\ L.final_video_path \in scratch
       THEN \E <<exists, upOk>> \in UploadOutcomes :
              LET r == upload_if_not_exists(exists, upOk)
              IN  /\ L' = [L EXCEPT !.urls = IF r.drive_file
                                               THEN @ \cup {"video"} ELSE @]
                  /\ ev' = [ev EXCEPT !.uploads = @ \cup {"video"}]
                  /\ scratch' = scratch \ {L.final_video_path}
       ELSE L' = L /\ ev' = ev /\ scratch' = scratch
  /\ pc' = "upload_audio"
  /\ UNCHANGED <<outside, inputs, attempt, exc, timedOut, row, pages, statusLog, result, jobState>>

\* upload the audio: the downloaded one (fallback) or the extracted one
YUploadAudio ==
  /\ At("youtube", "upload_audio")
  /\ LET audio_to_upload ==
           IF L.audio_path # "None" /\ L.audio_path \in scratch
             THEN L.audio_path ELSE L.extracted_audio_path
     IN  IF audio_to_upload # "None" /\ audio_to_upload \in scratch
           THEN \E <<exists, upOk>> \in UploadOutcomes :
                  LET r == upload_if_not_exists(exists, upOk)
                  IN  /\ L' = [L EXCEPT !.urls = IF r.drive_file
                                                   THEN @ \cup {"audio"} ELSE @]
                      /\ ev' = [ev EXCEPT !.uploads = @ \cup {"audio"}]
                      /\ scratch' = scratch \ {audio_to_upload}
           ELSE L' = L /\ ev' = ev /\ scratch' = scratch
  /\ pc' = "save_transcripts"
  /\ UNCHANGED <<outside, inputs, attempt, exc, timedOut, row, pages, statusLog, result, jobState>>

\* the transcript files are written only when there is text: the .txt always
\* (a failing open() leaves the coordinator), the .srt when there are
\* segments (an error writing it is caught)
YSaveTranscripts ==
  /\ At("youtube", "save_transcripts")
  /\ IF L.transcription_text
       THEN \E txtOk, srtOk \in BOOLEAN :
              IF txtOk
                THEN /\ scratch' = scratch \cup {"txt"}
                                     \cup (IF L.all_segments /\ srtOk
                                             THEN {"srt"} ELSE {})
                     /\ ev' = [ev EXCEPT !.produced =
                                 @ \cup {"txt"}
                                   \cup (IF L.all_segments /\ srtOk
                                           THEN {"srt"} ELSE {})]
                     /\ pc' = "upload_txt" /\ exc' = exc /\ L' = L
                ELSE /\ scratch' = scratch /\ ev' = ev /\ L' = Unwound
                     /\ pc' = "except" /\ exc' = "Exception"
       ELSE /\ scratch' = scratch /\ exc' = exc /\ L' = L
            /\ ev' = [ev EXCEPT !.uploadPhaseDone = TRUE]
            /\ pc' = "publish"
  /\ UNCHANGED <<outside, inputs, attempt, timedOut, row, pages, statusLog, result, jobState>>

YUploadTxt ==
  /\ At("youtube", "upload_txt")
  /\ IF "txt" \in scratch
       THEN \E <<exists, upOk>> \in UploadOutcomes :
              LET r == upload_if_not_exists(exists, upOk)
              IN  /\ L' = [L EXCEPT !.urls = IF r.drive_file
                                               THEN @ \cup {"txt"} ELSE @]
                  /\ ev' = [ev EXCEPT !.uploads = @ \cup {"txt"}]
                  /\ scratch' = scratch \ {"txt"}
       ELSE L' = L /\ ev' = ev /\ scratch' = scratch
  /\ pc' = "upload_srt"
  /\ UNCHANGED <<outside, inputs, attempt, exc, timedOut, row, pages, statusLog, result, jobState>>

YUploadSrt ==
  /\ At("youtube", "upload_srt")
  /\ IF "srt" \in scratch
       THEN \E <<exists, upOk>> \in UploadOutcomes :
              LET r == upload_if_not_exists(exists, upOk)
              IN  /\ L' = [L EXCEPT !.urls = IF r.drive_file
                                               THEN @ \cup {"srt"} ELSE @]
                  /\ ev' = [ev EXCEPT !.uploads = @ \cup {"srt"},
                                      !.uploadPhaseDone = TRUE]
                  /\ scratch' = scratch \ {"srt"}
       ELSE /\ L' = L /\ scratch' = scratch
            /\ ev' = [ev EXCEPT !.uploadPhaseDone = TRUE]
  /\ pc' = "publish"
  /\ UNCHANGED <<outside, inputs, attempt, exc, timedOut, row, pages, statusLog, result, jobState>>

\* 9. the logical keys of page_data whose value is not None
page_data ==
  {"name", "date", "video_date_time", "video_link", "video_url",
   "live_video_url", "video_id", "youtube_channel", "youtube_listing_status",
   "drive_folder", "drive_folder_link", "discord_channel", "status",
   "length_min"}
    \cup (IF "video" \in L.urls THEN {"video_file"} ELSE {})
    \cup (IF "audio" \in L.urls THEN {"audio_file"} ELSE {})
    \cup (IF "txt" \in L.urls THEN {"transcript_file"} ELSE {})
    \cup (IF "srt" \in L.urls THEN {"transcript_srt_file"} ELSE {})
    \cup (IF L.transcription_text THEN {"transcript_text"} ELSE {})

\* the submitter's row after a successful pages.update with the properties
\* built from field_map and data
update_page_properties(field_map, data) ==
  LET update_props == field_map \cap data
  IN  [row EXCEPT
         !.status = IF "status" \in update_props
                      THEN get_destination_database(channel).status_value
                      ELSE @,
         !.url = IF "video_url" \in update_props THEN TRUE ELSE @,
         !.transcript = \/ @
                        \/ "transcript_file" \in update_props
                        \/ "transcript_srt_file" \in update_props]

\* a dispatch that creates a page whatever the action
publication_call_always_create(action_type) ==
  IF action_type \in {"create_new_page", "update_origin"}
    THEN "create_page" ELSE "none"

\* 9. the publication call the policy's action selects
publication_call(action_type) ==
  CASE action_type = "create_new_page" -> "create_page"
    [] action_type = "update_origin" -> "update_properties"
    [] OTHER -> "none"

\* 9. publication: create_new_page creates the page and fails the attempt
\* when the catalog client returns None; update_origin updates the
\* submitter's row and fails the attempt when the update returns False
YPublish ==
  /\ At("youtube", "publish")
  /\ \E ok \in BOOLEAN :
       CASE publication_call(L.action_type) = "create_page" ->
              /\ ev' = [ev EXCEPT !.creates = @ + 1,
                                  !.created = IF ok THEN @ + 1 ELSE @]
              /\ pages' = IF ok
                            THEN Append(pages,
                                   create_video_page(
                                     get_destination_database(channel).database,
                                     L.field_map, page_data))
                            ELSE pages
              /\ L' = IF ok THEN [L EXCEPT !.notion_page = TRUE] ELSE Unwound
              /\ row' = row /\ statusLog' = statusLog
              /\ IF ok THEN pc' = "toggle" /\ exc' = exc
                       ELSE pc' = "except" /\ exc' = "Exception"
         [] publication_call(L.action_type) = "update_properties" ->
              /\ pages' = pages
              /\ L' = IF ok \/ L.field_map \cap page_data = {}
                         THEN L ELSE Unwound
              /\ IF L.field_map \cap page_data # {}
                   THEN /\ ev' = [ev EXCEPT !.updates = @ + 1,
                                           !.updated = IF ok THEN @ + 1 ELSE @,
                                           !.writeRefused = @ \/ ~ok]
                        /\ statusLog' =
                             IF "status" \in L.field_map \cap page_data
                               THEN Append(statusLog,
                                      get_destination_database(channel).status_value)
                               ELSE statusLog
                        /\ row' = IF ok
                                    THEN update_page_properties(L.field_map,
                                                                page_data)
                                    ELSE row
                        /\ IF ok THEN pc' = "toggle" /\ exc' = exc
                                 ELSE pc' = "except" /\ exc' = "Exception"
                   ELSE /\ ev' = ev /\ statusLog' = statusLog /\ row' = row
                        /\ pc' = "toggle" /\ exc' = exc
         [] OTHER ->
              /\ pc' = "except" /\ exc' = "Exception"
              /\ UNCHANGED <<ev, pages, L, row, statusLog>>
  /\ UNCHANGED <<outside, inputs, attempt, timedOut, scratch, result, jobState>>

\* the transcript toggle block is appended when there is text; a failure of
\* the append is caught by the catalog client
YToggle ==
  /\ At("youtube", "toggle")
  /\ IF L.transcription_text
       THEN ev' = [ev EXCEPT !.toggles = @ + 1]
       ELSE ev' = ev
  /\ pc' = IF L.action_type = "create_new_page" THEN "transcript_url"
                                                ELSE "cleanup"
  /\ UNCHANGED <<outside, inputs, attempt, exc, timedOut, L, scratch, row, pages,
                 statusLog, result, jobState>>

\* create_new_page: the new page's URL is written into the submitter's row;
\* a failure is logged only
YTranscriptUrl ==
  /\ At("youtube", "transcript_url")
  /\ \E ok \in BOOLEAN :
       /\ ev' = [ev EXCEPT !.links = @ + 1]
       /\ row' = IF ok THEN [row EXCEPT !.transcript_url = TRUE] ELSE row
  /\ pc' = "cleanup"
  /\ UNCHANGED <<outside, inputs, attempt, exc, timedOut, L, scratch, pages, statusLog, result, jobState>>

\* 10. cleanup (the scratch directory is removed only when it is empty) and
\* the result
YCleanup ==
  /\ At("youtube", "cleanup")
  /\ result' = [status |-> "success",
                processing_mode |-> IF L.streaming_failed
                                      THEN "fallback" ELSE "streaming",
                chunks_processed |-> L.chunks_count]
  /\ L' = FreshLocals
  /\ jobState' = "succeeded"
  /\ pc' = "done"
  /\ UNCHANGED <<outside, inputs, attempt, exc, timedOut, scratch, row, pages, ev, statusLog>>

\* the handlers of the task body (SoftTimeLimitExceeded, Exception): the
\* error is written to the row when the policy is update_origin, the catalog
\* client exists and the field map is not empty
handle_exception(ok) ==
  IF /\ L.action_type = "update_origin"
     /\ L.notion_client
     /\ L.field_map # {}
    THEN update_error_field(L.field_map, ok)
    ELSE [row |-> row, statusLog |-> statusLog, ev |-> ev, raised |-> FALSE]

\* an exception of the task body reaches a handler, which raises it again
YExcept ==
  /\ At("youtube", "except")
  /\ \E ok \in WriteOutcomes :
       LET w == handle_exception(ok)
       IN  row' = w.row /\ statusLog' = w.statusLog /\ ev' = w.ev
  /\ pc' = "raised"
  /\ result' = [NoResult EXCEPT !.status = "raised"]
  /\ L' = FreshLocals
  /\ UNCHANGED <<outside, inputs, attempt, exc, timedOut, scratch, pages, jobState>>

\* ------------------------------------------- process_discord_video (tasks.py)
DValidate ==
  /\ At("discord", "validate")
  /\ LET destination_db == get_destination_database(channel)
     IN  IF destination_db = NoPolicy
           THEN /\ pc' = "except" /\ exc' = "Exception" /\ L' = L
           ELSE /\ L' = [L EXCEPT !.action_type = destination_db.action_type,
                                   !.field_map = destination_db.field_map]
                /\ IF /\ destination_db.action_type = "create_new_page"
                      /\ destination_db.database = "None"
                     THEN pc' = "except" /\ exc' = "Exception"
                     ELSE pc' = "init" /\ exc' = exc
  /\ UNCHANGED <<outside, inputs, attempt, timedOut, scratch, row, pages, ev,
                 statusLog, result, jobState>>

DInit ==
  /\ At("discord", "init")
  /\ \E o \in {"ok", "no_service", "raise"} :
       IF o = "raise"
         THEN pc' = "except" /\ exc' = "Exception" /\ L' = L
         ELSE /\ L' = [L EXCEPT !.notion_client = TRUE,
                                 !.service = (o = "ok")]
              /\ pc' = "status_processing" /\ exc' = exc
  /\ UNCHANGED <<outside, inputs, attempt, timedOut, scratch, row, pages, ev,
                 statusLog, result, jobState>>

DStatusProcessing ==
  /\ At("discord", "status_processing")
  /\ \E ok \in WriteOutcomes :
       LET w == IF L.action_type = "update_origin"
                  THEN update_status_field("Processing", L.field_map, ok)
                  ELSE [row |-> row, statusLog |-> statusLog, ev |-> ev,
                        raised |-> FALSE]
       IN  /\ row' = w.row /\ statusLog' = w.statusLog /\ ev' = w.ev
           /\ IF w.raised \/ ~L.service
                THEN pc' = "except" /\ exc' = "Exception"
                ELSE pc' = "status_downloading" /\ exc' = exc
  /\ UNCHANGED <<outside, inputs, attempt, timedOut, L, scratch, pages, result, jobState>>

DStatusDownloading ==
  /\ At("discord", "status_downloading")
  /\ \E ok \in WriteOutcomes :
       LET w == IF L.action_type = "update_origin"
                  THEN update_status_field("Downloading", L.field_map, ok)
                  ELSE [row |-> row, statusLog |-> statusLog, ev |-> ev,
                        raised |-> FALSE]
       IN  /\ row' = w.row /\ statusLog' = w.statusLog /\ ev' = w.ev
           /\ IF w.raised THEN pc' = "except" /\ exc' = "Exception"
                          ELSE pc' = "download" /\ exc' = exc
  /\ UNCHANGED <<outside, inputs, attempt, timedOut, L, scratch, pages, result, jobState>>

\* 3. download the attachment: a file, no video attachment (None, which the
\* coordinator turns into ValueError) or an exception of the downloader
DDownload ==
  /\ At("discord", "download")
  /\ \E ok \in BOOLEAN :
       /\ ev' = [ev EXCEPT !.downloads = @ + 1,
                           !.produced = IF ok THEN @ \cup {"video"} ELSE @]
       /\ IF ok
            THEN /\ L' = [L EXCEPT !.video_path = "mp4"]
                 /\ scratch' = scratch \cup {"mp4"}
                 /\ pc' = "create_folder" /\ exc' = exc
            ELSE /\ L' = L /\ scratch' = scratch
                 /\ pc' = "except" /\ exc' = "Exception"
  /\ UNCHANGED <<outside, inputs, attempt, timedOut, row, pages, statusLog, result, jobState>>

\* 4. create the per-video folder under the override or the policy's folder;
\* the returned id is not examined
DCreateFolder ==
  /\ At("discord", "create_folder")
  /\ ev' = [ev EXCEPT !.folders = @ + 1]
  /\ \E ok \in BOOLEAN :
       /\ L' = [L EXCEPT !.drive_folder_id = ok]
  /\ pc' = "extract_audio"
  /\ UNCHANGED <<outside, inputs, attempt, exc, timedOut, scratch, row, pages,
                 statusLog, result, jobState>>

\* 5. extract the audio; None fails the attempt
DExtractAudio ==
  /\ At("discord", "extract_audio")
  /\ \E ok \in BOOLEAN :
       /\ IF ok
            THEN /\ L' = [L EXCEPT !.audio_path = "mp3"]
                 /\ scratch' = scratch \cup {"mp3"}
                 /\ ev' = [ev EXCEPT !.produced = @ \cup {"audio"}]
                 /\ pc' = "status_transcribing" /\ exc' = exc
            ELSE /\ L' = L /\ scratch' = scratch /\ ev' = ev
                 /\ pc' = "except" /\ exc' = "Exception"
  /\ UNCHANGED <<outside, inputs, attempt, timedOut, row, pages, statusLog, result, jobState>>

DStatusTranscribing ==
  /\ At("discord", "status_transcribing")
  /\ \E ok \in WriteOutcomes :
       LET w == IF L.action_type = "update_origin"
                  THEN update_status_field("Transcribing", L.field_map, ok)
                  ELSE [row |-> row, statusLog |-> statusLog, ev |-> ev,
                        raised |-> FALSE]
       IN  /\ row' = w.row /\ statusLog' = w.statusLog /\ ev' = w.ev
           /\ IF w.raised THEN pc' = "except" /\ exc' = "Exception"
                          ELSE pc' = "transcribe" /\ exc' = exc
  /\ UNCHANGED <<outside, inputs, attempt, timedOut, L, scratch, pages, result, jobState>>

\* 6. whole-file transcription; None or an empty text fails the attempt
DTranscribe ==
  /\ At("discord", "transcribe")
  /\ \E r \in {"None", "empty", "text"} :
       IF r = "text"
         THEN /\ L' = [L EXCEPT !.transcription_text = TRUE,
                                 !.all_segments = TRUE]
              /\ pc' = "save_transcripts" /\ exc' = exc
         ELSE L' = L /\ pc' = "except" /\ exc' = "Exception"
  /\ UNCHANGED <<outside, inputs, attempt, timedOut, scratch, row, pages, ev,
                 statusLog, result, jobState>>

\* the .txt is written (a failing open() leaves the coordinator), the .srt
\* when there are segments (an error writing it is caught)
DSaveTranscripts ==
  /\ At("discord", "save_transcripts")
  /\ \E txtOk, srtOk \in BOOLEAN :
       IF txtOk
         THEN /\ scratch' = scratch \cup {"txt"}
                              \cup (IF L.all_segments /\ srtOk
                                      THEN {"srt"} ELSE {})
              /\ ev' = [ev EXCEPT !.produced =
                          @ \cup {"txt"}
                            \cup (IF L.all_segments /\ srtOk
                                    THEN {"srt"} ELSE {})]
              /\ pc' = "compress" /\ exc' = exc /\ L' = L
         ELSE /\ scratch' = scratch /\ ev' = ev /\ L' = Unwound
              /\ pc' = "except" /\ exc' = "Exception"
  /\ UNCHANGED <<outside, inputs, attempt, timedOut, row, pages, statusLog, result, jobState>>

\* 6.5 compression when COMPRESSION_ENABLED
DCompress ==
  /\ At("discord", "compress")
  /\ IF COMPRESSION_ENABLED
       THEN \E ok \in BOOLEAN :
              /\ IF ok
                   THEN /\ scratch' = (scratch \ {L.video_path})
                                         \cup {"compressed"}
                        /\ L' = [L EXCEPT !.video_path = "compressed"]
                   ELSE L' = L /\ scratch' = scratch
       ELSE L' = L /\ scratch' = scratch
  /\ pc' = "status_uploading"
  /\ UNCHANGED <<outside, inputs, attempt, exc, timedOut, row, pages, ev,
                 statusLog, result, jobState>>

DStatusUploading ==
  /\ At("discord", "status_uploading")
  /\ \E ok \in WriteOutcomes :
       LET w == IF L.action_type = "update_origin"
                  THEN update_status_field("Uploading to Drive", L.field_map, ok)
                  ELSE [row |-> row, statusLog |-> statusLog, ev |-> ev,
                        raised |-> FALSE]
       IN  /\ row' = w.row /\ statusLog' = w.statusLog /\ ev' = w.ev
           /\ IF w.raised THEN pc' = "except" /\ exc' = "Exception"
                          ELSE pc' = "upload_video" /\ exc' = exc
  /\ UNCHANGED <<outside, inputs, attempt, timedOut, L, scratch, pages, result, jobState>>

\* 7. uploads: the video and the audio unconditionally, the transcript files
\* when they exist; only the transcript files are removed after the upload
DUploadVideo ==
  /\ At("discord", "upload_video")
  /\ \E <<exists, upOk>> \in UploadOutcomes :
       LET r == upload_if_not_exists(exists, upOk)
       IN  /\ L' = [L EXCEPT !.urls = IF r.drive_file
                                        THEN @ \cup {"video"} ELSE @]
           /\ ev' = [ev EXCEPT !.uploads = @ \cup {"video"}]
  /\ pc' = "upload_audio"
  /\ UNCHANGED <<outside, inputs, attempt, exc, timedOut, scratch, row, pages,
                 statusLog, result, jobState>>

\* the audio upload followed at once by the publication
DUploadAudio_then_publish ==
  /\ At("discord", "upload_audio")
  /\ IF L.audio_path # "None"
       THEN \E <<exists, upOk>> \in UploadOutcomes :
              LET r == upload_if_not_exists(exists, upOk)
              IN  /\ L' = [L EXCEPT !.urls = IF r.drive_file
                                               THEN @ \cup {"audio"} ELSE @]
                  /\ ev' = [ev EXCEPT !.uploads = @ \cup {"audio"}]
       ELSE L' = L /\ ev' = ev
  /\ pc' = "publish"
  /\ UNCHANGED <<outside, inputs, attempt, exc, timedOut, scratch, row, pages,
                 statusLog, result, jobState>>

DUploadAudio ==
  /\ At("discord", "upload_audio")
  /\ IF L.audio_path # "None"
       THEN \E <<exists, upOk>> \in UploadOutcomes :
              LET r == upload_if_not_exists(exists, upOk)
              IN  /\ L' = [L EXCEPT !.urls = IF r.drive_file
                                               THEN @ \cup {"audio"} ELSE @]
                  /\ ev' = [ev EXCEPT !.uploads = @ \cup {"audio"}]
       ELSE L' = L /\ ev' = ev
  /\ pc' = "upload_txt"
  /\ UNCHANGED <<outside, inputs, attempt, exc, timedOut, scratch, row, pages,
                 statusLog, result, jobState>>

DUploadTxt ==
  /\ At("discord", "upload_txt")
  /\ IF "txt" \in scratch
       THEN \E <<exists, upOk>> \in UploadOutcomes :
              LET r == upload_if_not_exists(exists, upOk)
              IN  /\ L' = [L EXCEPT !.urls = IF r.drive_file
                                               THEN @ \cup {"txt"} ELSE @]
                  /\ ev' = [ev EXCEPT !.uploads = @ \cup {"txt"}]
                  /\ scratch' = scratch \ {"txt"}
       ELSE L' = L /\ ev' = ev /\ scratch' = scratch
  /\ pc' = "upload_srt"
  /\ UNCHANGED <<outside, inputs, attempt, exc, timedOut, row, pages, statusLog, result, jobState>>

DUploadSrt ==
  /\ At("discord", "upload_srt")
  /\ IF "srt" \in scratch
       THEN \E <<exists, upOk>> \in UploadOutcomes :
              LET r == upload_if_not_exists(exists, upOk)
              IN  /\ L' = [L EXCEPT !.urls = IF r.drive_file
                                               THEN @ \cup {"srt"} ELSE @]
                  /\ ev' = [ev EXCEPT !.uploads = @ \cup {"srt"},
                                      !.uploadPhaseDone = TRUE]
                  /\ scratch' = scratch \ {"srt"}
       ELSE /\ L' = L /\ scratch' = scratch
            /\ ev' = [ev EXCEPT !.uploadPhaseDone = TRUE]
  /\ pc' = "publish"
  /\ UNCHANGED <<outside, inputs, attempt, exc, timedOut, row, pages, statusLog, result, jobState>>

\* 8. the logical keys of notion_data whose value is not None
notion_data ==
  {"name", "video_date_time", "drive_folder_link", "status", "length_min"}
    \cup (IF "video" \in L.urls THEN {"video_file"} ELSE {})
    \cup (IF "audio" \in L.urls THEN {"audio_file"} ELSE {})
    \cup (IF "txt" \in L.urls THEN {"transcript_file"} ELSE {})
    \cup (IF "srt" \in L.urls THEN {"transcript_srt_file"} ELSE {})
    \cup (IF L.transcription_text THEN {"transcript_text"} ELSE {})

\* 8. publication: create_new_page calls create_video_page and takes whatever
\* it returns as the page URL; update_origin updates the submitter's row and
\* fails the attempt when the update returns False
DPublish ==
  /\ At("discord", "publish")
  /\ \E ok \in BOOLEAN :
       IF publication_call(L.action_type) = "create_page"
         THEN /\ ev' = [ev EXCEPT !.creates = @ + 1,
                                  !.created = IF ok THEN @ + 1 ELSE @]
              /\ pages' = IF ok
                            THEN Append(pages,
                                   create_video_page(
                                     get_destination_database(channel).database,
                                     L.field_map, notion_data))
                            ELSE pages
              /\ L' = [L EXCEPT !.notion_page = ok]
              /\ row' = row /\ statusLog' = statusLog
              /\ pc' = "cleanup" /\ exc' = exc
         ELSE /\ pages' = pages
              /\ L' = IF ok \/ L.field_map \cap notion_data = {}
                         THEN L ELSE Unwound
              /\ IF L.field_map \cap notion_data # {}
                   THEN /\ ev' = [ev EXCEPT !.updates = @ + 1,
                                           !.updated = IF ok THEN @ + 1 ELSE @,
                                           !.writeRefused = @ \/ ~ok]
                        /\ statusLog' =
                             IF "status" \in L.field_map \cap notion_data
                               THEN Append(statusLog,
                                      get_destination_database(channel).status_value)
                               ELSE statusLog
                        /\ row' = IF ok
                                    THEN update_page_properties(L.field_map,
                                                                notion_data)
                                    ELSE row
                        /\ IF ok THEN pc' = "toggle" /\ exc' = exc
                                 ELSE pc' = "except" /\ exc' = "Exception"
                   ELSE /\ ev' = ev /\ statusLog' = statusLog /\ row' = row
                        /\ pc' = "toggle" /\ exc' = exc
  /\ UNCHANGED <<outside, inputs, attempt, timedOut, scratch, result, jobState>>

\* update_origin: the transcript toggle block is appended to the row
DToggle ==
  /\ At("discord", "toggle")
  /\ IF L.transcription_text
       THEN ev' = [ev EXCEPT !.toggles = @ + 1]
       ELSE ev' = ev
  /\ pc' = "cleanup"
  /\ UNCHANGED <<outside, inputs, attempt, exc, timedOut, L, scratch, row, pages,
                 statusLog, result, jobState>>

\* 9. cleanup: the video and the audio are removed; the result
DCleanup ==
  /\ At("discord", "cleanup")
  /\ scratch' = scratch \ {L.video_path, L.audio_path}
  /\ result' = [NoResult EXCEPT !.status = "success"]
  /\ L' = FreshLocals
  /\ jobState' = "succeeded"
  /\ pc' = "done"
  /\ UNCHANGED <<outside, inputs, attempt, exc, timedOut, row, pages, ev, statusLog>>

DExcept ==
  /\ At("discord", "except")
  /\ \E ok \in WriteOutcomes :
       LET w == handle_exception(ok)
       IN  row' = w.row /\ statusLog' = w.statusLog /\ ev' = w.ev
  /\ pc' = "raised"
  /\ result' = [NoResult EXCEPT !.status = "raised"]
  /\ L' = FreshLocals
  /\ UNCHANGED <<outside, inputs, attempt, exc, timedOut, scratch, pages, jobState>>

\* ------------------------------------------------------- worker and queue
\* an inner try block that reaches down to the status write of the uploads
StreamingBlock_through_uploads ==
  {"stream_start", "status_transcribing", "stream_transcribe",
   "status_uploading"}

\* the positions of process_youtube_video's inner try block (streaming)
StreamingBlock == {"stream_start", "status_transcribing", "stream_transcribe"}

\* task_soft_time_limit: SoftTimeLimitExceeded is raised inside the running
\* task body, once per attempt.  In the streaming block of the video-host
\* task it is caught by the block's own `except Exception` (streaming
\* failure); everywhere else it reaches the task's handler, which runs
\* here: the error write when the policy is update_origin, then the raise.
SoftTimeLimit ==
  /\ jobState = "running"
  /\ ~timedOut
  /\ pc \notin {"except", "raised", "done"}
  /\ timedOut' = TRUE
  /\ IF kind = "youtube" /\ pc \in StreamingBlock
       THEN /\ L' = [L EXCEPT !.streaming_failed = TRUE]
            /\ pc' = "fallback_video" /\ exc' = exc
            /\ UNCHANGED <<row, statusLog, ev, result>>
       ELSE /\ \E ok \in WriteOutcomes :
                 LET w == handle_exception(ok)
                 IN  row' = w.row /\ statusLog' = w.statusLog /\ ev' = w.ev
            /\ L' = FreshLocals
            /\ pc' = "raised" /\ exc' = "SoftTimeLimitExceeded"
            /\ result' = [NoResult EXCEPT !.status = "raised"]
  /\ UNCHANGED <<outside, inputs, attempt, scratch, pages, jobState>>

\* a requeue that does not look at max_retries
Retry_without_limit ==
  /\ jobState = "running"
  /\ pc = "raised"
  /\ attempt' = attempt + 1
  /\ pc' = "validate"
  /\ exc' = "None"
  /\ timedOut' = FALSE
  /\ L' = FreshLocals
  /\ ev' = [FreshEvents EXCEPT !.writeRefused = ev.writeRefused]
  /\ statusLog' = <<>>
  /\ result' = NoResult
  /\ scratch' = {}
  /\ UNCHANGED <<outside, inputs, row, pages, jobState>>

\* autoretry_for=(Exception,), max_retries=CELERY_TASK_MAX_RETRIES: an
\* exception leaving the task body requeues the job until the retries are
\* used up; the new attempt starts the task body from its first line
Retry ==
  /\ jobState = "running"
  /\ pc = "raised"
  /\ attempt < CELERY_TASK_MAX_RETRIES
  /\ attempt' = attempt + 1
  /\ pc' = "validate"
  /\ exc' = "None"
  /\ timedOut' = FALSE
  /\ L' = FreshLocals
  /\ ev' = [FreshEvents EXCEPT !.writeRefused = ev.writeRefused]
  /\ statusLog' = <<>>
  /\ result' = NoResult
  /\ scratch' = {}
  /\ UNCHANGED <<outside, inputs, row, pages, jobState>>

\* retries used up: the job is reported failed
JobFailed ==
  /\ jobState = "running"
  /\ pc = "raised"
  /\ attempt >= CELERY_TASK_MAX_RETRIES
  /\ jobState' = "failed"
  /\ pc' = "done"
  /\ UNCHANGED <<outside, inputs, attempt, exc, timedOut, L, scratch, row, pages,
                 ev, statusLog, result>>

YoutubeTask ==
  \/ YValidate \/ YInit \/ YStatusProcessing \/ YDedup \/ YVideoInfo
  \/ YResolveFolder \/ YCreateFolder \/ YStatusDownloading \/ YStreamStart
  \/ YStatusTranscribing \/ YStreamChunk \/ YStreamEnd \/ YFallbackVideo
  \/ YFallbackAudio \/ YFallbackTranscribe \/ YStatusUploading \/ YConvert
  \/ YCompress \/ YExtractAudio \/ YUploadVideo \/ YUploadAudio
  \/ YSaveTranscripts \/ YUploadTxt \/ YUploadSrt \/ YPublish \/ YToggle
  \/ YTranscriptUrl \/ YCleanup \/ YExcept

DiscordTask ==
  \/ DValidate \/ DInit \/ DStatusProcessing \/ DStatusDownloading
  \/ DDownload \/ DCreateFolder \/ DExtractAudio \/ DStatusTranscribing
  \/ DTranscribe \/ DSaveTranscripts \/ DCompress \/ DStatusUploading
  \/ DUploadVideo \/ DUploadAudio \/ DUploadTxt \/ DUploadSrt \/ DPublish
  \/ DToggle \/ DCleanup \/ DExcept

Next ==
  \/ YoutubeTask
  \/ DiscordTask
  \/ SoftTimeLimit
  \/ Retry
  \/ JobFailed

Spec == Init /\ [][Next]_vars

\* ---------------------------------- DriveManager and retry_on_failure
\* a job at rest, for the specifications that follow another component
JobAtRest ==
  /\ kind = "youtube" /\ channel = "market-outlook"
  /\ parentFolder = "config" /\ COMPRESSION_ENABLED = FALSE
  /\ attempt = 0 /\ pc = "validate" /\ exc = "None" /\ timedOut = FALSE
  /\ L = FreshLocals /\ scratch = {}
  /\ row = [status |-> "None", url |-> FALSE, transcript |-> FALSE,
            transcript_url |-> FALSE]
  /\ pages = <<>> /\ ev = FreshEvents /\ statusLog = <<>>
  /\ result = NoResult /\ jobState = "running"

\* DriveManager.file_exists: the by-name query of the folder; an error of
\* the query is caught and answered "does not exist"
file_exists(queryOk, n) == queryOk /\ dFiles[n] > 0

\* retry_on_failure: the wait before the retry that follows `attempt`
wait_time(delay, attempt_) == delay * (2 ^ attempt_)

\* a wrapper that also sleeps after its last attempt
retry_on_failure_sleeping_last(max_retries, delay, attempt_, ok) ==
  IF ok THEN [outcome |-> "return", sleeps |-> <<>>]
  ELSE IF attempt_ < max_retries
    THEN [outcome |-> "retry", sleeps |-> <<wait_time(delay, attempt_)>>]
    ELSE [outcome |-> "raise", sleeps |-> <<wait_time(delay, attempt_)>>]

\* retry_on_failure: one pass of the wrapper's loop, for attempt in
\* range(max_retries + 1).  The call returning ends the loop; an exception
\* is followed by a sleep and another pass while attempt < max_retries, and
\* by the raise of the last exception otherwise.
retry_on_failure(max_retries, delay, attempt_, ok) ==
  IF ok THEN [outcome |-> "return", sleeps |-> <<>>]
  ELSE IF attempt_ < max_retries
    THEN [outcome |-> "retry", sleeps |-> <<wait_time(delay, attempt_)>>]
    ELSE [outcome |-> "raise", sleeps |-> <<>>]

\* what upload_if_not_exists hands back: (uploaded, drive_file), the drive
\* file being the existing one, the new one or None
returned(exists, upOk) ==
  LET r == upload_if_not_exists(exists, upOk)
  IN  [uploaded |-> r.uploaded,
       drive_file |-> IF ~r.drive_file THEN "None"
                      ELSE IF exists THEN "existing" ELSE "new"]

\* upload_if_not_exists(media_file, folder_id) is called
DriveCall ==
  /\ dPhase = "idle"
  /\ dCalls < MaxCalls
  /\ \E n \in FileNames : dName' = n
  /\ dPhase' = "probe"
  /\ dCalls' = dCalls + 1
  /\ dExists' = FALSE /\ dAttempt' = 0 /\ dTries' = 0 /\ dSleeps' = <<>>
  /\ dRet' = NoReturn
  /\ UNCHANGED <<pureVars, jobVars, hookVars, workerVars, streamVars, dFiles>>

\* exists, file_id = self.file_exists(...): a file of that name is handed
\* back without uploading
DriveFileExists ==
  /\ dPhase = "probe"
  /\ \E queryOk \in BOOLEAN :
       LET exists == file_exists(queryOk, dName)
       IN  /\ dExists' = exists
           /\ IF exists
                THEN dPhase' = "returned" /\ dRet' = returned(TRUE, FALSE)
                ELSE dPhase' = "upload" /\ dRet' = dRet
  /\ UNCHANGED <<pureVars, jobVars, hookVars, workerVars, streamVars, dFiles, dName, dAttempt, dTries, dSleeps, dCalls>>

\* one execution of upload_file's body under its retry wrapper; the
\* exception that leaves the wrapper is caught by upload_if_not_exists
DriveUploadFile ==
  /\ dPhase = "upload"
  /\ \E ok \in BOOLEAN :
       LET step == retry_on_failure(DRIVE_UPLOAD_MAX_RETRIES,
                                    DRIVE_UPLOAD_RETRY_DELAY, dAttempt, ok)
       IN  /\ dTries' = dTries + 1
           /\ dSleeps' = dSleeps \o step.sleeps
           /\ dFiles' = IF ok THEN [dFiles EXCEPT ![dName] = @ + 1]
                               ELSE dFiles
           /\ CASE step.outcome = "return" ->
                      /\ dPhase' = "returned"
                      /\ dRet' = returned(FALSE, TRUE)
                      /\ dAttempt' = dAttempt
                  [] step.outcome = "retry" ->
                      /\ dPhase' = "upload"
                      /\ dRet' = dRet
                      /\ dAttempt' = dAttempt + 1
                  [] step.outcome = "raise" ->
                      /\ dPhase' = "returned"
                      /\ dRet' = returned(FALSE, FALSE)
                      /\ dAttempt' = dAttempt
  /\ UNCHANGED <<pureVars, jobVars, hookVars, workerVars, streamVars, dName, dExists, dCalls>>

\* the caller has the result
DriveReturn ==
  /\ dPhase = "returned"
  /\ dPhase' = "idle"
  /\ UNCHANGED <<pureVars, jobVars, hookVars, workerVars, streamVars, dFiles, dName, dExists, dAttempt, dTries, dSleeps,
                 dRet, dCalls>>

InitDrive ==
  /\ JobAtRest
  /\ StreamAtRest
  /\ PureAtRest
  /\ HookAtRest
  /\ WorkersAtRest
  /\ dFiles \in [FileNames -> 0..1]
  /\ dCalls = 0
  /\ DriveAtRest

NextDrive ==
  \/ DriveCall
  \/ DriveFileExists
  \/ DriveUploadFile
  \/ DriveReturn

SpecDrive == InitDrive /\ [][NextDrive]_vars

\* ------------------------------------------- POST /webhook/process-video
\* the URLs a body may carry: a YouTube URL, a Discord message URL, another
YouTubeUrl == "https://youtu.be/abc"
DiscordUrl == "https://discord.com/channels/1/2/3"
OtherUrl == "https://example.com/v"

\* Python truth value of an Optional[str]
Falsy(v) == v \in {"None", ""}

\* Python's `a or b`
Or(a, b) == IF Falsy(a) THEN b ELSE a

is_valid_youtube_url(url) == ~Falsy(url) /\ url = YouTubeUrl

is_valid_discord_message_url(url) == ~Falsy(url) /\ url = DiscordUrl

\* VALID_CHANNELS = list(CHANNEL_TO_DATABASE_MAPPING.keys())
is_valid_channel(c) == c \in DOMAIN CHANNEL_TO_DATABASE_MAPPING

\* WebhookPayload.validate_video_url(v, values): other is what the fields
\* validated before this one supply
validate_video_url(v, other) ==
  LET url == Or(v, other)
  IN  IF Falsy(url) THEN "None"
      ELSE IF ~is_valid_youtube_url(url) /\ ~is_valid_discord_message_url(url)
        THEN "ValueError"
        ELSE url

\* WebhookPayload.validate_channel(v, values)
validate_channel(v, other) ==
  LET c == Or(v, other)
  IN  IF Falsy(c) THEN "None"
      ELSE IF ~is_valid_channel(c) THEN "ValueError" ELSE c

\* the fields of WebhookPayload validated in declaration order: a field
\* whose validator raised is absent from `values`
WebhookPayload(body) ==
  LET video_url == validate_video_url(body.video_url, "None")
      channel_name == validate_channel(body.channel_name, "None")
      seen_url == IF video_url = "ValueError" THEN "None" ELSE video_url
      seen_channel == IF channel_name = "ValueError" THEN "None"
                      ELSE channel_name
  IN  [notion_page_id |-> body.notion_page_id,
       video_url |-> video_url,
       channel_name |-> channel_name,
       discord_entry_id |-> body.discord_entry_id,
       youtube_url |-> validate_video_url(body.youtube_url, seen_url),
       channel |-> validate_channel(body.channel, seen_channel)]

\* WebhookPayload.get_notion_page_id, get_video_url, get_channel_name
get_notion_page_id(payload) ==
  Or(payload.notion_page_id, payload.discord_entry_id)

\* a getter that prefers the legacy name
get_video_url_legacy_first(payload) == Or(payload.youtube_url, payload.video_url)

get_video_url(payload) == Or(payload.video_url, payload.youtube_url)

get_channel_name(payload) == Or(payload.channel_name, payload.channel)

\* a source that does not look at the URL
video_source_by_default(video_url) == "YouTube"

\* video_source as the endpoint derives it from is_youtube and is_discord
video_source(video_url) ==
  IF is_valid_youtube_url(video_url) THEN "YouTube"
  ELSE IF is_valid_discord_message_url(video_url) THEN "Discord"
  ELSE "Unknown"

\* a secret that is checked whatever the server's setting
verify_webhook_secret_always(x_webhook_secret) ==
  IF Falsy(x_webhook_secret) THEN 401
  ELSE IF x_webhook_secret # WEBHOOK_SECRET THEN 403
  ELSE 0

\* verify_webhook_secret: the status of the HTTPException raised, 0 when
\* the request passes
verify_webhook_secret(x_webhook_secret) ==
  IF /\ ~Falsy(WEBHOOK_SECRET)
     /\ WEBHOOK_SECRET # "change-this-secret-in-production"
    THEN IF Falsy(x_webhook_secret) THEN 401
         ELSE IF x_webhook_secret # WEBHOOK_SECRET THEN 403
         ELSE 0
    ELSE 0

\* the framework builds the payload before it calls the endpoint: a
\* validator that raised is answered 422 and the endpoint is not called
HookParse ==
  /\ hPhase = "received"
  /\ LET p == WebhookPayload(hBody)
     IN  IF \E f \in DOMAIN p : p[f] = "ValueError"
           THEN hPhase' = "responded" /\ hResponse' = 422
                /\ hPayload' = hPayload
           ELSE hPhase' = "parsed" /\ hResponse' = hResponse
                /\ hPayload' = p
  /\ UNCHANGED <<pureVars, jobVars, driveVars, workerVars, streamVars, WEBHOOK_SECRET, hHeader, hBody, hQueue>>

\* process_video_webhook: authentication, then inside the try block the
\* required fields, the routing on the URL's shape and apply_async; every
\* exception of the block is answered 500
process_video_webhook ==
  /\ hPhase = "parsed"
  /\ hPhase' = "responded"
  /\ LET auth == verify_webhook_secret(hHeader)
         notion_page_id == get_notion_page_id(hPayload)
         video_url == get_video_url(hPayload)
         channel_name == get_channel_name(hPayload)
         task == IF video_source(video_url) = "YouTube"
                   THEN "process_youtube_video"
                   ELSE "process_discord_video"
     IN  IF auth # 0
           THEN hResponse' = auth /\ hQueue' = hQueue
         ELSE IF Falsy(notion_page_id) \/ Falsy(video_url)
                 \/ Falsy(channel_name)
           THEN hResponse' = 500 /\ hQueue' = hQueue
         ELSE IF video_source(video_url) = "Unknown"
           THEN hResponse' = 500 /\ hQueue' = hQueue
         ELSE \E enqueued \in BOOLEAN :
                IF enqueued
                  THEN /\ hQueue' = Append(hQueue,
                                      [task |-> task,
                                       notion_page_id |-> notion_page_id,
                                       video_url |-> video_url,
                                       channel |-> channel_name])
                       /\ hResponse' = 200
                  ELSE hQueue' = hQueue /\ hResponse' = 500
  /\ UNCHANGED <<pureVars, jobVars, driveVars, workerVars, streamVars, WEBHOOK_SECRET, hHeader, hBody, hPayload>>

InitWebhook ==
  /\ JobAtRest
  /\ StreamAtRest
  /\ PureAtRest
  /\ WorkersAtRest
  /\ dFiles = [n \in FileNames |-> 0] /\ dCalls = 0 /\ DriveAtRest
  /\ WEBHOOK_SECRET \in {"", "change-this-secret-in-production", "s3cret"}
  /\ hHeader \in {"None", "", "s3cret", "wrong"}
  /\ hBody \in [notion_page_id : {"None", "", "page-1"},
                 discord_entry_id : {"None", "", "page-1"},
                 video_url : {"None", "", YouTubeUrl, DiscordUrl, OtherUrl},
                 youtube_url : {"None", "", YouTubeUrl, DiscordUrl, OtherUrl},
                 channel_name : {"None", "", "audit-process", "unmapped"},
                 channel : {"None", "", "audit-process"}]
  /\ hPayload = NoPayload
  /\ hPhase = "received"
  /\ hResponse = 0
  /\ hQueue = <<>>

NextWebhook ==
  \/ HookParse
  \/ process_video_webhook

SpecWebhook == InitWebhook /\ [][NextWebhook]_vars

\* ------------------------- two runs of process_youtube_video for one URL
\* Both runs are jobs of a create_new_page channel for the same video URL,
\* each on its own worker, with every external call succeeding.  The steps
\* are the ones of the task that read or write what the runs share.
jobVarsButPages ==
  <<kind, channel, parentFolder, COMPRESSION_ENABLED, attempt, pc, exc,
    timedOut, L, scratch, row, ev, statusLog, result, jobState>>

Ended == {"done", "skipped"}

\* the worker takes the job from the queue
WStart(w) ==
  /\ wPc[w] = "idle"
  /\ wPc' = [wPc EXCEPT ![w] = "dedup"]
  /\ wAfter' = [wAfter EXCEPT ![w] = \E o \in Workers \ {w} : wPc[o] \in Ended]
  /\ UNCHANGED <<pureVars, jobVars, driveVars, hookVars, streamVars, wFolder, wText, wUploaded,
                 wUrls, gFolders, gFiles>>

\* 3. the dedup probe: a match with a transcript ends the run as skipped
WDedup(w) ==
  /\ wPc[w] = "dedup"
  /\ wPc' = [wPc EXCEPT ![w] = IF find_video_by_url(TRUE, TRUE)
                                     = "has_transcript"
                                  THEN "skipped" ELSE "create_folder"]
  /\ UNCHANGED <<pureVars, jobVars, driveVars, hookVars, streamVars, wAfter, wFolder, wText,
                 wUploaded, wUrls, gFolders, gFiles>>

\* 6. DriveManager.create_folder: files().create with the folder's name and
\* parent; no folder of that name is looked for first
WCreateFolder(w) ==
  /\ wPc[w] = "create_folder"
  /\ gFolders' = gFolders + 1
  /\ wFolder' = [wFolder EXCEPT ![w] = gFolders + 1]
  /\ wPc' = [wPc EXCEPT ![w] = "pipeline"]
  /\ UNCHANGED <<pureVars, jobVars, driveVars, hookVars, streamVars, wAfter, wText, wUploaded,
                 wUrls, gFiles>>

\* 7. download and transcription: the video is there, the transcription
\* may have produced no text
WPipeline(w) ==
  /\ wPc[w] = "pipeline"
  /\ \E text \in BOOLEAN : wText' = [wText EXCEPT ![w] = text]
  /\ wPc' = [wPc EXCEPT ![w] = "upload_video"]
  /\ UNCHANGED <<pureVars, jobVars, driveVars, hookVars, streamVars, wAfter, wFolder, wUploaded,
                 wUrls, gFolders, gFiles>>

\* 8. upload_if_not_exists(artifact, drive_folder_id) of the run's folder
WUpload(w, artifact, then) ==
  /\ wPc[w] = "upload_" \o artifact
  /\ LET r == upload_if_not_exists(<<wFolder[w], artifact>> \in gFiles, TRUE)
     IN  /\ gFiles' = IF r.uploaded
                        THEN gFiles \cup {<<wFolder[w], artifact>>}
                        ELSE gFiles
         /\ wUploaded' = IF r.uploaded
                           THEN [wUploaded EXCEPT ![w] = @ \cup {artifact}]
                           ELSE wUploaded
         /\ wUrls' = IF r.drive_file
                       THEN [wUrls EXCEPT ![w] = @ \cup {artifact}]
                       ELSE wUrls
  /\ wPc' = [wPc EXCEPT ![w] = then]
  /\ UNCHANGED <<pureVars, jobVars, driveVars, hookVars, streamVars, wAfter, wFolder, wText,
                 gFolders>>

\* the video is uploaded; the transcript file only when there is text
WUploadVideo(w) ==
  WUpload(w, "video", IF wText[w] THEN "upload_txt" ELSE "publish")

WUploadTxt(w) == WUpload(w, "txt", "publish")

\* 9. create_video_page with the URLs the run holds
WPublish(w) ==
  /\ wPc[w] = "publish"
  /\ LET policy == get_destination_database(channel)
         data == {"name", "video_link", "status"}
                   \cup (IF "video" \in wUrls[w] THEN {"video_file"} ELSE {})
                   \cup (IF "txt" \in wUrls[w] THEN {"transcript_file"}
                                                ELSE {})
     IN  pages' = Append(pages, create_video_page(policy.database,
                                                  policy.field_map, data))
  /\ wPc' = [wPc EXCEPT ![w] = "done"]
  /\ UNCHANGED <<pureVars, jobVarsButPages, driveVars, hookVars, streamVars, wAfter, wFolder, wText,
                 wUploaded, wUrls, gFolders, gFiles>>

InitWorkers ==
  /\ JobAtRest
  /\ StreamAtRest
  /\ PureAtRest
  /\ dFiles = [n \in FileNames |-> 0] /\ dCalls = 0 /\ DriveAtRest
  /\ HookAtRest
  /\ WorkersAtRest

NextWorkers ==
  \/ \E w \in Workers : WStart(w)
  \/ \E w \in Workers : WDedup(w)
  \/ \E w \in Workers : WCreateFolder(w)
  \/ \E w \in Workers : WPipeline(w)
  \/ \E w \in Workers : WUploadVideo(w)
  \/ \E w \in Workers : WUploadTxt(w)
  \/ \E w \in Workers : WPublish(w)

SpecWorkers == InitWorkers /\ [][NextWorkers]_vars

\* ----------------------------------- AudioTranscriber.transcribe_stream
\* what the speech model can return for d ticks of audio: up to MaxSegments
\* segments inside the buffer, start <= end, starts in order
SegmentsOf(d) ==
  {[start |-> p[1], end |-> p[2]] :
     p \in {q \in (0..d) \X (0..d) : q[1] <= q[2]}}

SegmentLists(d) ==
  UNION {{l \in [1..n -> SegmentsOf(d)] :
            \A i \in 1..(n - 1) : l[i].start <= l[i + 1].start} :
         n \in 0..MaxSegments}

\* model.transcribe on the buffer: it raises, or it returns segments, of
\* which some carry text (voiced) or none does
ModelAnswers(d) ==
  {[raised |-> TRUE, voiced |-> FALSE, segments |-> <<>>]}
    \cup {[raised |-> FALSE, voiced |-> v, segments |-> l] :
            v \in BOOLEAN, l \in SegmentLists(d)}

\* a buffer transcription that leaves the model's timestamps as they are
transcribe_audio_buffer_unshifted(answer, time_offset) ==
  IF answer.raised THEN [text |-> FALSE, segments |-> <<>>]
  ELSE [text |-> answer.voiced /\ answer.segments # <<>>,
        segments |-> answer.segments]

\* _transcribe_audio_buffer: the text (here: whether it is not empty) and
\* the segments with time_offset added to start and end; an exception is
\* caught and answered "", []
transcribe_audio_buffer(answer, time_offset) ==
  IF answer.raised THEN [text |-> FALSE, segments |-> <<>>]
  ELSE [text |-> answer.voiced /\ answer.segments # <<>>,
        segments |-> [i \in 1..Len(answer.segments) |->
                        [start |-> answer.segments[i].start + time_offset,
                         end |-> answer.segments[i].end + time_offset]]]

\* the StreamingTranscriptionResult built after the loop
stream_result(text, segments, chunks) ==
  [text |-> text, segments |-> segments, chunks_processed |-> chunks,
   stream_completed |-> TRUE]

\* the 44-byte WAV header: a short read or an exception returns an empty
\* result with stream_completed = False
StreamHeader ==
  /\ tPhase = "header"
  /\ \E header \in {"read", "short", "raised"} :
       IF header = "read"
         THEN tPhase' = "loop" /\ tEnd' = tEnd /\ tResult' = tResult
         ELSE /\ tPhase' = "returned" /\ tEnd' = "header"
              /\ tResult' = NoStreamResult
  /\ UNCHANGED <<pureVars, jobVars, driveVars, hookVars, workerVars, tBuffer, tOffset,
                 tText, tSegments, tChunks, tRead, tRequest, tSubmitted>>

\* a request that ignores what the buffer already holds
read_size_unclamped(buffer_len) == STREAMING_BUFFER_SIZE

\* read_size = min(chunk_size_bytes - len(audio_buffer),
\* STREAMING_BUFFER_SIZE)
read_size(buffer_len) ==
  IF STREAMING_CHUNK_DURATION - buffer_len < STREAMING_BUFFER_SIZE
    THEN STREAMING_CHUNK_DURATION - buffer_len
    ELSE STREAMING_BUFFER_SIZE

\* a residual that is submitted whenever it is not empty
covers_min_audio_always(buffer_len) == buffer_len > 0

\* len(audio_buffer) >= int(STREAMING_MIN_AUDIO_DURATION * bytes_per_second)
covers_min_audio(buffer_len) == buffer_len >= STREAMING_MIN_AUDIO_DURATION

\* the units the buffer holds are the last buffer_len units read: the
\* record of handing its first `count` units to the speech model
submission(read, buffer_len, count, time_offset) ==
  [first |-> read - buffer_len + 1, last |-> read - buffer_len + count,
   time_offset |-> time_offset]

\* one pass of the loop whose read returns data: the data joins the buffer,
\* and a buffer that has reached the chunk size is transcribed; a chunk
\* with text is counted and yielded, and the offset moves on in any case
StreamRead ==
  /\ tPhase = "loop"
  /\ tOffset < MaxStreamChunks * STREAMING_CHUNK_DURATION
  /\ tRequest' = read_size(tBuffer)
  /\ \E n \in 1..read_size(tBuffer) :
       /\ tRead' = tRead + n
       /\ IF tBuffer + n >= STREAMING_CHUNK_DURATION
            THEN \E answer \in ModelAnswers(STREAMING_CHUNK_DURATION) :
                   LET r == transcribe_audio_buffer(answer, tOffset)
                   IN  /\ tText' = (tText \/ r.text)
                       /\ tSegments' = IF r.text THEN tSegments \o r.segments
                                                 ELSE tSegments
                       /\ tChunks' = IF r.text THEN tChunks + 1 ELSE tChunks
                       /\ tSubmitted' =
                            Append(tSubmitted,
                                   submission(tRead + n, tBuffer + n,
                                              STREAMING_CHUNK_DURATION,
                                              tOffset))
                       /\ tOffset' = tOffset + STREAMING_CHUNK_DURATION
                       /\ tBuffer' = tBuffer + n - STREAMING_CHUNK_DURATION
            ELSE /\ tBuffer' = tBuffer + n
                 /\ UNCHANGED <<tOffset, tText, tSegments, tChunks,
                                tSubmitted>>
  /\ UNCHANGED <<pureVars, jobVars, driveVars, hookVars, workerVars, tPhase, tEnd,
                 tResult>>

\* the read returns nothing (end of stream): a remaining buffer of at least
\* the minimum duration is transcribed, then the loop is left
StreamEof ==
  /\ tPhase = "loop"
  /\ tRequest' = read_size(tBuffer)
  /\ IF covers_min_audio(tBuffer)
       THEN \E answer \in ModelAnswers(tBuffer) :
              LET r == transcribe_audio_buffer(answer, tOffset)
              IN  /\ tText' = (tText \/ r.text)
                  /\ tSegments' = IF r.text THEN tSegments \o r.segments
                                            ELSE tSegments
                  /\ tChunks' = IF r.text THEN tChunks + 1 ELSE tChunks
                  /\ tSubmitted' =
                       Append(tSubmitted,
                              submission(tRead, tBuffer, tBuffer, tOffset))
       ELSE UNCHANGED <<tText, tSegments, tChunks, tSubmitted>>
  /\ tPhase' = "returned"
  /\ tEnd' = "eof"
  /\ tResult' = stream_result(tText', tSegments', tChunks')
  /\ UNCHANGED <<pureVars, jobVars, driveVars, hookVars, workerVars, tBuffer, tOffset,
                 tRead>>

\* the read raises: BrokenPipeError and every other exception are caught
\* and logged, and the function goes on to its return statement
StreamReadError ==
  /\ tPhase = "loop"
  /\ \E e \in {"BrokenPipeError", "Exception"} : tEnd' = e
  /\ tRequest' = read_size(tBuffer)
  /\ tPhase' = "returned"
  /\ tResult' = stream_result(tText, tSegments, tChunks)
  /\ UNCHANGED <<pureVars, jobVars, driveVars, hookVars, workerVars, tBuffer, tOffset,
                 tText, tSegments, tChunks, tRead, tSubmitted>>

InitStream ==
  /\ JobAtRest
  /\ dFiles = [n \in FileNames |-> 0] /\ dCalls = 0 /\ DriveAtRest
  /\ HookAtRest
  /\ WorkersAtRest
  /\ PureAtRest
  /\ tPhase = "header" /\ tBuffer = 0 /\ tOffset = 0 /\ tText = FALSE
  /\ tSegments = <<>> /\ tChunks = 0 /\ tEnd = "None"
  /\ tRead = 0 /\ tRequest = 0 /\ tSubmitted = <<>>
  /\ tResult = NoStreamResult

NextStream ==
  \/ StreamHeader
  \/ StreamRead
  \/ StreamEof
  \/ StreamReadError

SpecStream == InitStream /\ [][NextStream]_vars

\* ------------------------------- catalog writes built from a field map
\* the logical keys create_video_page knows, and name_yt_format, which the
\* configuration lists and no builder loop handles
LogicalKeys ==
  {"name", "date", "video_date_time", "video_link", "video_url",
   "live_video_url", "drive_folder", "drive_folder_link", "video_file",
   "audio_file", "transcript_file", "transcript_srt_file", "discord_channel",
   "youtube_channel", "status", "youtube_listing_status", "length_min",
   "processing_time", "video_id", "transcript_text", "process_errors",
   "name_yt_format"}

Columns == {"Column A", "Column B"}

\* entries of a field map
MaxFields == 2

\* a value of data: absent (None), an empty string, a value
Values == {"None", "", "value"}

\* the if/elif chain of create_video_page: the builder used for each
\* logical key, "skipped" when no branch matches
property_type_create ==
  [k \in LogicalKeys |->
     CASE k = "name" -> "title"
       [] k \in {"date", "video_date_time"} -> "date"
       [] k \in {"video_link", "video_url", "live_video_url", "drive_folder",
                 "drive_folder_link", "video_file", "audio_file"} -> "url"
       [] k \in {"transcript_file", "transcript_srt_file"} -> "file"
       [] k \in {"discord_channel", "youtube_channel", "status",
                 "youtube_listing_status"} -> "select"
       [] k \in {"length_min", "processing_time"} -> "number"
       [] k \in {"video_id", "transcript_text", "process_errors"} -> "text"
       [] OTHER -> "skipped"]

\* the if/elif chain of the update_origin branch of process_youtube_video
property_type_update ==
  [k \in LogicalKeys |->
     CASE k \in {"drive_folder", "drive_folder_link", "video_file",
                 "audio_file", "video_link", "video_url",
                 "live_video_url"} -> "url"
       [] k \in {"transcript_file", "transcript_srt_file"} -> "file"
       [] k \in {"status", "discord_channel", "youtube_channel",
                 "youtube_listing_status"} -> "select"
       [] k \in {"date", "video_date_time"} -> "date"
       [] k = "length_min" -> "number"
       [] k = "name" -> "title"
       [] k \in {"video_id", "transcript_text", "process_errors"} -> "text"
       [] OTHER -> "skipped"]

\* the if/elif chain of the update_origin branch of process_discord_video
property_type_update_discord ==
  [k \in LogicalKeys |->
     CASE k \in {"drive_folder_link", "video_file", "audio_file"} -> "url"
       [] k \in {"transcript_file", "transcript_srt_file"} -> "file"
       [] k = "status" -> "select"
       [] k = "video_date_time" -> "date"
       [] k = "length_min" -> "number"
       [] k = "name" -> "title"
       [] k = "transcript_text" -> "text"
       [] OTHER -> "skipped"]

NoProperties == [c \in Columns |-> "absent"]

\* for logical_key, column_name in field_map.items(): a None value and a
\* key without a branch leave properties as it is, any other entry assigns
\* properties[column_name]
RECURSIVE build_properties(_, _, _, _)
build_properties(types, field_map, data, properties) ==
  IF field_map = <<>>
    THEN properties
    ELSE LET logical_key == Head(field_map)[1]
             column_name == Head(field_map)[2]
             value == data[logical_key]
         IN  build_properties(
               types, Tail(field_map), data,
               IF value = "None" \/ types[logical_key] = "skipped"
                 THEN properties
                 ELSE [properties EXCEPT ![column_name] = types[logical_key]])

\* field maps of up to MaxFields entries: a dict has each key once
FieldMaps ==
  UNION { { m \in [1..n -> LogicalKeys \X Columns] :
              \A i, j \in 1..n : i # j => m[i][1] # m[j][1] } :
          n \in 0..MaxFields }

CreateVideoPage ==
  /\ cw_path = "none"
  /\ cw_path' = "create_video_page"
  /\ cw_properties' = build_properties(property_type_create, cw_field_map,
                                       cw_data, NoProperties)
  /\ UNCHANGED <<jobVars, driveVars, hookVars, workerVars, streamVars,
                 dropdownVars, sanitizeVars, cw_field_map, cw_data>>

UpdateOrigin ==
  /\ cw_path = "none"
  /\ cw_path' = "update_origin"
  /\ cw_properties' = build_properties(property_type_update, cw_field_map,
                                       cw_data, NoProperties)
  /\ UNCHANGED <<jobVars, driveVars, hookVars, workerVars, streamVars,
                 dropdownVars, sanitizeVars, cw_field_map, cw_data>>

UpdateOriginDiscord ==
  /\ cw_path = "none"
  /\ cw_path' = "update_origin_discord"
  /\ cw_properties' = build_properties(property_type_update_discord,
                                       cw_field_map, cw_data, NoProperties)
  /\ UNCHANGED <<jobVars, driveVars, hookVars, workerVars, streamVars,
                 dropdownVars, sanitizeVars, cw_field_map, cw_data>>

InitCatalog ==
  /\ JobAtRest
  /\ dFiles = [n \in FileNames |-> 0] /\ dCalls = 0 /\ DriveAtRest
  /\ HookAtRest
  /\ WorkersAtRest
  /\ StreamAtRest
  /\ DropdownAtRest /\ SanitizeAtRest
  /\ cw_field_map \in FieldMaps
  /\ cw_data \in [{cw_field_map[i][1] : i \in DOMAIN cw_field_map} -> Values]
  /\ cw_path = "none"
  /\ cw_properties = NoProperties

NextCatalog == CreateVideoPage \/ UpdateOrigin \/ UpdateOriginDiscord

SpecCatalog == InitCatalog /\ [][NextCatalog]_vars

\* ------------------------------------ NotionClient.add_transcript_dropdown
\* a letter and a blank
Chars == {"a", " "}

\* max_chars is 2000 in the source; the model runs it small
max_chars == 3
MaxTextLen == 6

\* str.strip() for texts over Chars
RECURSIVE strip(_)
strip(text) ==
  IF text = <<>> THEN text
  ELSE IF Head(text) = " " THEN strip(Tail(text))
  ELSE IF text[Len(text)] = " " THEN strip(SubSeq(text, 1, Len(text) - 1))
  ELSE text

\* str.split(): the maximal runs of non-blank characters, in order
RECURSIVE split(_, _)
split(text, word) ==
  IF text = <<>>
    THEN IF word = <<>> THEN <<>> ELSE <<word>>
    ELSE IF Head(text) = " "
           THEN (IF word = <<>> THEN <<>> ELSE <<word>>)
                  \o split(Tail(text), <<>>)
           ELSE split(Tail(text), Append(word, Head(text)))

\* the loop over words: a word that fits extends current_chunk, any other
\* word closes it
RECURSIVE pack_words(_, _, _)
pack_words(words, current_chunk, chunks) ==
  IF words = <<>>
    THEN IF current_chunk # <<>>
           THEN Append(chunks, strip(current_chunk)) ELSE chunks
    ELSE LET word == Head(words)
         IN  IF Len(current_chunk) + Len(word) + 1 <= max_chars
               THEN pack_words(Tail(words), current_chunk \o word \o <<" ">>,
                               chunks)
               ELSE pack_words(Tail(words), word \o <<" ">>,
                               Append(chunks, strip(current_chunk)))

\* chunks of add_transcript_dropdown
transcript_chunks(text) ==
  IF Len(text) <= max_chars THEN <<text>>
  ELSE pack_words(split(text, <<>>), <<>>, <<>>)

\* one toggle block whose children are one paragraph per chunk; when the
\* append raises the client returns False and the page gets no toggle
AddTranscriptDropdown ==
  /\ dropdown_return = "None"
  /\ \E ok \in BOOLEAN :
       /\ children' = IF ok THEN transcript_chunks(transcript_text) ELSE <<>>
       /\ dropdown_return' = IF ok THEN "True" ELSE "False"
  /\ UNCHANGED <<jobVars, driveVars, hookVars, workerVars, streamVars,
                 catalogVars, sanitizeVars, transcript_text>>

\* both tasks call add_transcript_dropdown only with a non-empty text
InitDropdown ==
  /\ JobAtRest
  /\ dFiles = [n \in FileNames |-> 0] /\ dCalls = 0 /\ DriveAtRest
  /\ HookAtRest
  /\ WorkersAtRest
  /\ StreamAtRest
  /\ CatalogAtRest /\ SanitizeAtRest
  /\ transcript_text \in UNION { [1..n -> Chars] : n \in 1..MaxTextLen }
  /\ children = <<>>
  /\ dropdown_return = "None"

NextDropdown == AddTranscriptDropdown

SpecDropdown == InitDropdown /\ [][NextDropdown]_vars

\* --------------------------------------------- helpers.sanitize_filename
\* characters of a title: ASCII letters and a digit, the three characters
\* kept by name, two other ASCII characters, a non-ASCII letter and a
\* non-ASCII digit
TitleChars ==
  {"a", "Z", "7", " ", "-", "_", "/", ":", "e-acute", "arabic-indic-3"}

MaxTitleLen == 3

\* str.isalnum() of one character: true for every Unicode letter and digit
isalnum(c) == c \in {"a", "Z", "7", "e-acute", "arabic-indic-3"}

sanitize_filename(name) ==
  [i \in 1..Len(name) |->
     IF isalnum(name[i]) \/ name[i] \in {" ", "-", "_"}
       THEN name[i] ELSE "_"]

SanitizeFilename ==
  /\ ~sanitized
  /\ sanitized' = TRUE
  /\ safe_title' = sanitize_filename(filename)
  /\ UNCHANGED <<jobVars, driveVars, hookVars, workerVars, streamVars,
                 catalogVars, dropdownVars, filename>>

InitSanitize ==
  /\ JobAtRest
  /\ dFiles = [n \in FileNames |-> 0] /\ dCalls = 0 /\ DriveAtRest
  /\ HookAtRest
  /\ WorkersAtRest
  /\ StreamAtRest
  /\ CatalogAtRest /\ DropdownAtRest
  /\ filename \in UNION { [1..n -> TitleChars] : n \in 0..MaxTitleLen }
  /\ safe_title = <<>>
  /\ sanitized = FALSE

NextSanitize == SanitizeFilename

SpecSanitize == InitSanitize /\ [][NextSanitize]_vars

\* ------------------------------------------------------------- properties
\* the policy of the job's channel
Policy == get_destination_database(channel)

UpdateExisting == Policy.action_type = "update_origin"

CreateNew == Policy.action_type = "create_new_page"

\* the position of a status value on the ladder
Rank(v) ==
  CASE v = "Processing" -> 1
    [] v = "Downloading" -> 2
    [] v = "Transcribing" -> 3
    [] v = "Uploading to Drive" -> 4
    [] v = "Complete" -> 5
    [] OTHER -> 0

\* number of entries of a sequence equal to v
Count(seq, v) == Cardinality({i \in 1..Len(seq) : seq[i] = v})

\* catalog calls of the running attempt that write: status and error
\* writes, page creation, property update, toggle append, link write
CatalogWrites ==
  ev.statusWrites + ev.errorWrites + ev.creates + ev.updates + ev.toggles
    + ev.links

\* C1: an attempt of the video-host job whose dedup probe returned a match
\* with a transcript returns skipped and has made no folder creation, no
\* upload, no stream or download start and no publication call (page
\* creation, property update, toggle append, link write); the only value
\* the status column can have been sent is the Processing of step 2.1,
\* which precedes the probe
C1_SkipRunsNoPipeline ==
  result.status = "skipped" =>
    /\ kind = "youtube" /\ pc = "done" /\ jobState = "succeeded"
    /\ ev.probes = 1
    /\ ev.folders = 0 /\ ev.uploads = {} /\ ev.streams = 0
    /\ ev.downloads = 0 /\ ev.produced = {} /\ scratch = {}
    /\ ev.creates = 0 /\ ev.updates = 0 /\ ev.toggles = 0 /\ ev.links = 0
    /\ ev.errorWrites = 0
    /\ statusLog \in {<<>>, <<"Processing">>}

C1_Witness ==
  /\ result.status = "skipped" /\ pc = "done" /\ ev.probes = 1
  /\ CreateNew

\* C2: an attempt that ends skipped has made zero catalog writes of any
\* kind, status writes included, for every channel policy
C2_SkippedWritesNothing ==
  result.status = "skipped" => CatalogWrites = 0

\* C3: when the PCM pipe broke or the transcoder exited after some chunks
\* were emitted, a successful result has processing_mode "fallback"
C3_BrokenPipeEntersFallback ==
  (kind = "youtube" /\ result.status = "success" /\ ev.pipeBroken) =>
    /\ ev.fallbackEntered
    /\ result.processing_mode = "fallback"

\* C4: an attempt of an update-existing video-host job in which no
\* transcoder operation succeeded never writes Complete and never returns
\* success
C4_DeadTranscoderNeverCompletes ==
  (kind = "youtube" /\ UpdateExisting /\ ~ev.transcoderOk) =>
    /\ result.status # "success"
    /\ Count(statusLog, "Complete") = 0

\* C5: within one attempt of an update-existing job the status values sent
\* are non-decreasing on the ladder, nothing is sent after a Complete that
\* reached the row, and Error is the last status write
C5_StatusLadderOrdered ==
  UpdateExisting =>
    \A i, j \in 1..Len(statusLog) :
      i < j =>
        /\ (statusLog[i] # "Error" /\ statusLog[j] # "Error")
             => Rank(statusLog[i]) <= Rank(statusLog[j])
        /\ ~(statusLog[i] = "Complete" /\ ev.updated > 0)
        /\ statusLog[i] # "Error"

\* C6: a status or error write that fails never changes the job: whatever
\* the catalog answers, the step of a status write leads to the position
\* that follows it in the code (the missing Drive service alone raises at
\* the Processing step), the step of an error write leads to the raise,
\* and neither creates a page nor settles the job
C6_WriteOutcomeIsIgnored ==
  [][ LET after ==
            IF kind = "youtube"
              THEN CASE pc = "status_processing" -> "dedup"
                     [] pc = "status_downloading" -> "stream_start"
                     [] pc = "status_transcribing" -> "stream_transcribe"
                     [] pc = "fallback_audio" -> "fallback_transcribe"
                     [] pc = "status_uploading" -> "convert"
                     [] OTHER -> "none"
              ELSE CASE pc = "status_processing" -> "status_downloading"
                     [] pc = "status_downloading" -> "download"
                     [] pc = "status_transcribing" -> "transcribe"
                     [] pc = "status_uploading" -> "upload_video"
                     [] OTHER -> "none"
      IN  /\ (ev'.statusWrites = ev.statusWrites + 1) =>
               /\ pc' = IF pc = "status_processing" /\ ~L.service
                          THEN "except" ELSE after
               /\ pages' = pages /\ result' = result
               /\ jobState' = jobState /\ attempt' = attempt
          /\ (ev'.errorWrites = ev.errorWrites + 1) =>
               /\ pc' = "raised" /\ result'.status = "raised"
               /\ pages' = pages /\ jobState' = jobState
               /\ attempt' = attempt
    ]_vars

\* every status write of the ladder failed and the job is at publication
C6_Witness ==
  /\ UpdateExisting /\ attempt = 0 /\ pc = "publish"
  /\ Len(statusLog) >= 4 /\ row.status = "None"
  /\ ev.uploads # {}

\* C7: an attempt of an update-existing job that ended with an exception
\* of its body (the soft time limit left aside) has attempted the error
\* write
C7_FailureWritesError ==
  (UpdateExisting /\ result.status = "raised" /\ exc = "Exception") =>
    ev.errorWrites >= 1

\* C8: after a success the targeted row exists and carries the policy's
\* status_value, written once in the attempt: the page the attempt created
\* (create-new) or the submitter's row (update-existing)
C8_SuccessLeavesStatusValue ==
  result.status = "success" =>
    /\ CreateNew =>
         /\ ev.created = 1
         /\ pages # <<>>
         /\ pages[Len(pages)].status = Policy.status_value
    /\ UpdateExisting =>
         /\ ev.updated = 1
         /\ row.status = Policy.status_value
         /\ Count(statusLog, Policy.status_value) = 1

\* C9: a successful attempt has made exactly one publication call, the one
\* its policy selects, and an update-existing job never creates a page
C9_ExactlyOnePublication ==
  /\ (result.status = "success" /\ CreateNew) =>
       (ev.creates = 1 /\ ev.updates = 0)
  /\ (result.status = "success" /\ UpdateExisting) =>
       (ev.updates = 1 /\ ev.creates = 0)
  /\ UpdateExisting => (ev.creates = 0 /\ ev.created = 0)

C9_Witness ==
  /\ result.status = "success" /\ UpdateExisting
  /\ ev.updates = 1 /\ ev.toggles = 1

\* C10: a publication call is made only after the upload phase finished,
\* every artifact the attempt holds having had its upload attempted; an
\* attempt that raised before the upload phase finished made none
C10_PublicationAfterUploads ==
  /\ (ev.creates + ev.updates > 0) =>
       (ev.uploadPhaseDone /\ ev.produced \subseteq ev.uploads)
  /\ (result.status = "raised" /\ ~ev.uploadPhaseDone) =>
       (ev.creates + ev.updates = 0)

C10_Witness ==
  /\ ev.creates + ev.updates = 1
  /\ ev.produced = {"video", "audio", "txt", "srt"}
  /\ ev.uploads = {"video", "audio", "txt", "srt"}

\* C13: when an attempt has ended (success, skipped or raised) no scratch
\* file written by that attempt remains in the scratch directory
C13_ScratchEmptyAtEnd ==
  result.status \in {"success", "skipped", "raised"} => scratch = {}

C15_SoftTimeLimitTerminal ==
  [][ (pc = "raised" /\ exc = "SoftTimeLimitExceeded") =>
        (attempt' = attempt /\ jobState' = "failed") ]_vars

\* C17: an attempt that published its catalog entry returns success only
\* when every upload it attempted yielded a file in the object store (none
\* ran out of retries)
C17_UploadFailureFailsJob ==
  [][ (/\ result.status = "none" /\ result'.status = "success"
       /\ ev.created + ev.updated > 0) =>
        ev.uploads \subseteq L.urls ]_vars

C18_UploadIffAbsent ==
  /\ dExists => dTries = 0 /\ dFiles[dName] >= 1
  /\ dPhase = "returned" =>
       /\ dRet # NoReturn
       /\ dExists => dRet = [uploaded |-> FALSE, drive_file |-> "existing"]
       /\ ~dExists =>
            /\ dTries > 0
            /\ \/ dRet = [uploaded |-> TRUE, drive_file |-> "new"]
               \/ /\ dRet = [uploaded |-> FALSE, drive_file |-> "None"]
                  /\ dTries = DRIVE_UPLOAD_MAX_RETRIES + 1
  /\ dRet.uploaded => dFiles[dName] >= 1

C18_Witness ==
  /\ dPhase = "returned" /\ dExists /\ dFiles[dName] = 1 /\ dCalls = 2
  /\ dRet = [uploaded |-> FALSE, drive_file |-> "existing"]

\* the three logical fields as the body gives them, primary or alias
MissingField ==
  \/ Falsy(hBody.notion_page_id) /\ Falsy(hBody.discord_entry_id)
  \/ Falsy(hBody.video_url) /\ Falsy(hBody.youtube_url)
  \/ Falsy(hBody.channel_name) /\ Falsy(hBody.channel)

\* a validator of the payload raised for this body
PayloadRejected ==
  \E f \in DOMAIN NoPayload : WebhookPayload(hBody)[f] = "ValueError"

\* the server checks the secret
SecretConfigured ==
  ~Falsy(WEBHOOK_SECRET) /\ WEBHOOK_SECRET # "change-this-secret-in-production"

\* C19: a request that passes authentication and lacks one of the three
\* logical fields under both its names is answered 422 and enqueues no job
C19_MissingFieldIs422 ==
  (/\ hPhase = "responded" /\ hResponse # 0 /\ MissingField
   /\ verify_webhook_secret(hHeader) = 0) =>
    hResponse = 422 /\ hQueue = <<>>

C11_RerunUploadsNothing ==
  \A w \in Workers :
    wAfter[w] => wFolder[w] = 0 /\ wUploaded[w] = {}

\* C12: two runs for one URL that overlap in time create at most one page
\* for it and upload each artifact at most once
C12_OnePageOneUpload ==
  (\A w \in Workers : wPc[w] # "idle" /\ ~wAfter[w]) =>
    /\ Len(SelectSeq(pages, LAMBDA p : p.link)) <= 1
    /\ \A a \in {"video", "txt"} :
         Cardinality({w \in Workers : a \in wUploaded[w]}) <= 1

\* a validator of the payload raises for this body
Rejects(body) ==
  \E f \in DOMAIN NoPayload : WebhookPayload(body)[f] = "ValueError"

\* the request passed the payload validation, the authentication and the
\* required-field checks: apply_async was called
EnqueueAttempted ==
  /\ hPhase = "responded" /\ hResponse # 0
  /\ ~Rejects(hBody) /\ verify_webhook_secret(hHeader) = 0 /\ ~MissingField

\* C21: a request enqueues at most one job; it is answered 200 (queued)
\* exactly when the queue holds its job; the job is process_youtube_video
\* when the URL has the YouTube shape and process_discord_video otherwise,
\* for a Discord message URL; when apply_async raises, the answer is 500
\* and the queue is empty
C21_OneJobPerAcceptedRequest ==
  (hPhase = "responded" /\ hResponse # 0) =>
    /\ Len(hQueue) <= 1
    /\ hResponse = 200 <=> Len(hQueue) = 1
    /\ hQueue # <<>> =>
         /\ EnqueueAttempted
         /\ is_valid_youtube_url(hQueue[1].video_url) =>
              hQueue[1].task = "process_youtube_video"
         /\ ~is_valid_youtube_url(hQueue[1].video_url) =>
              /\ hQueue[1].task = "process_discord_video"
              /\ is_valid_discord_message_url(hQueue[1].video_url)
    /\ EnqueueAttempted => hResponse \in {200, 500}
    /\ (EnqueueAttempted /\ hQueue = <<>>) => hResponse = 500

C21_Witness ==
  /\ hPhase = "responded" /\ hResponse = 200 /\ Len(hQueue) = 1
  /\ hQueue[1].task = "process_discord_video"
  /\ hQueue[1].video_url = DiscordUrl

\* the body with the values of the primary and the legacy names exchanged
Swap(body) ==
  [notion_page_id |-> body.discord_entry_id,
   discord_entry_id |-> body.notion_page_id,
   video_url |-> body.youtube_url, youtube_url |-> body.video_url,
   channel_name |-> body.channel, channel |-> body.channel_name]

\* the body gives its values under the legacy names only
LegacyOnly(body) ==
  /\ body.notion_page_id = "None" /\ body.video_url = "None"
  /\ body.channel_name = "None"

\* a value as the endpoint's `if not value` tests see it: None and the
\* empty string are the same missing value
Given(v) == IF Falsy(v) THEN "None" ELSE v

\* C22: a body under the legacy names only is rejected exactly when the
\* same values under the primary names are, and otherwise yields the same
\* three arguments and the same task; a job that is enqueued carries, for
\* each field, the primary value when there is one and the legacy value
\* otherwise
C22_LegacyNamesAreAliases ==
  (hPhase = "responded" /\ hResponse # 0) =>
    /\ LegacyOnly(hBody) =>
         LET legacy == WebhookPayload(hBody)
             primary == WebhookPayload(Swap(hBody))
         IN  /\ Rejects(hBody) <=> Rejects(Swap(hBody))
             /\ ~Rejects(hBody) =>
                  /\ Given(get_notion_page_id(legacy))
                       = Given(get_notion_page_id(primary))
                  /\ Given(get_video_url(legacy))
                       = Given(get_video_url(primary))
                  /\ Given(get_channel_name(legacy))
                       = Given(get_channel_name(primary))
                  /\ video_source(get_video_url(legacy))
                       = video_source(get_video_url(primary))
    /\ hQueue # <<>> =>
         /\ hQueue[1].notion_page_id
              = (IF Falsy(hBody.notion_page_id) THEN hBody.discord_entry_id
                 ELSE hBody.notion_page_id)
         /\ hQueue[1].video_url
              = (IF Falsy(hBody.video_url) THEN hBody.youtube_url
                 ELSE hBody.video_url)
         /\ hQueue[1].channel
              = (IF Falsy(hBody.channel_name) THEN hBody.channel
                 ELSE hBody.channel_name)

C22_Witness ==
  /\ hPhase = "responded" /\ hResponse = 200 /\ LegacyOnly(hBody)
  /\ hQueue = <<[task |-> "process_discord_video",
                 notion_page_id |-> "page-1", video_url |-> DiscordUrl,
                 channel |-> "audit-process"]>>

\* the positions of each task body in the order of its statements; the
\* handler and the worker's bookkeeping come last
YoutubePhases ==
  <<"validate", "init", "status_processing", "dedup", "video_info",
    "resolve_folder", "create_folder", "status_downloading", "stream_start",
    "status_transcribing", "stream_transcribe", "fallback_video",
    "fallback_audio", "fallback_transcribe", "status_uploading", "convert",
    "compress", "extract_audio", "upload_video", "upload_audio",
    "save_transcripts", "upload_txt", "upload_srt", "publish", "toggle",
    "transcript_url", "cleanup", "except", "raised", "done">>

DiscordPhases ==
  <<"validate", "init", "status_processing", "status_downloading",
    "download", "create_folder", "extract_audio", "status_transcribing",
    "transcribe", "save_transcripts", "compress", "status_uploading",
    "upload_video", "upload_audio", "upload_txt", "upload_srt", "publish",
    "toggle", "cleanup", "except", "raised", "done">>

\* where each position stands in a task body
IndexOf(phases) ==
  [p \in {phases[i] : i \in 1..Len(phases)} |->
     CHOOSE i \in 1..Len(phases) : phases[i] = p]

YoutubeIndex == IndexOf(YoutubePhases)

DiscordIndex == IndexOf(DiscordPhases)

\* 0 for a position the task does not have
PhaseIndex(k, p) ==
  LET index == IF k = "youtube" THEN YoutubeIndex ELSE DiscordIndex
  IN  IF p \in DOMAIN index THEN index[p] ELSE 0

\* C23: within one attempt every change of position goes to a later
\* position of the task body, so no phase is entered twice; a retry starts
\* at validate with the locals of task entry (no text, segments, fallback
\* flag or file paths) and with no chunk counted
C23_PhasesNeverReentered ==
  [][ IF attempt' # attempt
        THEN /\ pc = "raised" /\ pc' = "validate"
             /\ L' = FreshLocals /\ result' = NoResult
        ELSE \/ pc' = pc
             \/ LET from == PhaseIndex(kind, pc)
                    to == PhaseIndex(kind, pc')
                IN  0 < from /\ from < to ]_vars

C23_Witness ==
  /\ kind = "youtube" /\ attempt = 1 /\ pc = "publish"
  /\ ev.fallbackEntered /\ L.streaming_failed /\ ev.streams = 1

\* C24: in both tasks, a media download, a stream, a folder creation or an
\* upload of an attempt comes after the dedup probe of that attempt
C24_ProbeBeforeDownloadAndWrites ==
  (\/ ev.downloads > 0 \/ ev.streams > 0 \/ ev.folders > 0
   \/ ev.uploads # {}) => ev.probes > 0

\* C25: a run whose dedup probe found the page of an earlier run without a
\* transcript leaves the catalog with that one page for the URL
C25_ExistingPageIsUpdated ==
  (\E w \in Workers :
     /\ wAfter[w] /\ wPc[w] \in Ended
     /\ pages # <<>> /\ pages[1].link /\ ~pages[1].transcript) =>
    Len(SelectSeq(pages, LAMBDA p : p.link)) <= 1

\* C26: in both tasks, a job that created its page and succeeded has made
\* the write of the page's URL into the submitter's row and, when a
\* transcript file was produced, has appended the toggle block to the page
C26_CreateNewLinksBack ==
  (result.status = "success" /\ CreateNew /\ ev.created = 1) =>
    /\ ev.links >= 1
    /\ "txt" \in ev.produced => ev.toggles >= 1

\* C27: on a channel whose policy sets skip_compression, no step of either
\* task calls compress_video, whatever COMPRESSION_ENABLED is
C27_SkipCompressionIsHonoured ==
  [][ (/\ Policy.skip_compression
       /\ pc = "compress"
       /\ pc' \in {"extract_audio", "status_uploading"}) =>
        ~COMPRESSION_ENABLED ]_vars

\* C28: a video-host job whose transcription left no segments (and no text)
\* writes the .txt transcript file to scratch when it passes the step that
\* saves the transcripts, and writes no .srt
C28_ZeroSegmentsStillWritesTxt ==
  [][ (/\ kind = "youtube" /\ pc = "save_transcripts"
       /\ ~L.all_segments /\ ~L.transcription_text
       /\ pc' \in {"upload_txt", "publish"}) =>
        ("txt" \in scratch' /\ "srt" \notin scratch') ]_vars

\* C29: the segments transcribe_stream has yielded, taken together in the
\* order of their yield, never go back in start, and each keeps
\* start <= end; so do the segments of the result
C29_SegmentsOrdered ==
  /\ \A i \in 1..Len(tSegments) : tSegments[i].start <= tSegments[i].end
  /\ \A i \in 1..(Len(tSegments) - 1) :
       tSegments[i].start <= tSegments[i + 1].start
  /\ tPhase = "returned" => tResult.segments = tSegments

C29_Witness ==
  /\ tPhase = "returned" /\ tEnd = "eof"
  /\ tOffset = MaxStreamChunks * STREAMING_CHUNK_DURATION
  /\ tChunks = MaxStreamChunks /\ Len(tSegments) >= 3
  /\ tSegments[1].start < STREAMING_CHUNK_DURATION
  /\ tSegments[Len(tSegments)].start >= tOffset

\* C30: a read that raises a broken-pipe error ends transcribe_stream with
\* the text and segments accumulated so far and stream_completed = false
C30_BrokenPipeNotCompleted ==
  (tPhase = "returned" /\ tEnd = "BrokenPipeError") =>
    /\ tResult.segments = tSegments /\ tResult.text = tText
    /\ tResult.stream_completed = FALSE

\* C31: the buffers handed to the speech model are consecutive runs of the
\* units read after the header, in stream order and without overlap; every
\* buffer but a final one is exactly one chunk long, and the k-th of them
\* (from 0, chunks without text included) has time offset k x
\* chunk_duration; at end of stream the residual is handed over exactly
\* when it covers the minimum duration, and a smaller one is dropped
C31_ChunksInStreamOrder ==
  LET full == tOffset \div STREAMING_CHUNK_DURATION
  IN  /\ tOffset = full * STREAMING_CHUNK_DURATION
      /\ Len(tSubmitted) \in {full, full + 1}
      /\ \A k \in 1..Len(tSubmitted) :
           /\ tSubmitted[k].first = (k - 1) * STREAMING_CHUNK_DURATION + 1
           /\ tSubmitted[k].time_offset = (k - 1) * STREAMING_CHUNK_DURATION
           /\ tSubmitted[k].last <= tRead
           /\ k <= full =>
                tSubmitted[k].last = k * STREAMING_CHUNK_DURATION
      /\ Len(tSubmitted) = full + 1 =>
           /\ tEnd = "eof" /\ tSubmitted[full + 1].last = tRead
           /\ tBuffer >= STREAMING_MIN_AUDIO_DURATION
           /\ tBuffer < STREAMING_CHUNK_DURATION
      /\ (tEnd = "eof" /\ Len(tSubmitted) = full) =>
           tBuffer < STREAMING_MIN_AUDIO_DURATION
      /\ tRead = tOffset + tBuffer

C31_Witness ==
  /\ tPhase = "returned" /\ tEnd = "eof" /\ tChunks = 1
  /\ tSubmitted =
       <<[first |-> 1, last |-> STREAMING_CHUNK_DURATION, time_offset |-> 0],
         [first |-> STREAMING_CHUNK_DURATION + 1, last |-> tRead,
          time_offset |-> STREAMING_CHUNK_DURATION]>>
  /\ tRead = STREAMING_CHUNK_DURATION + STREAMING_MIN_AUDIO_DURATION
  /\ tSegments # <<>>
  /\ tSegments[1].start >= STREAMING_CHUNK_DURATION

\* C35: the buffer never holds more than one chunk window, and every read
\* of the loop asks for at least one unit and at most STREAMING_BUFFER_SIZE
C35_BufferWithinWindow ==
  /\ tBuffer \in 0..STREAMING_CHUNK_DURATION
  /\ tPhase = "loop" =>
       /\ tBuffer < STREAMING_CHUNK_DURATION
       /\ read_size(tBuffer) \in 1..STREAMING_BUFFER_SIZE
       /\ tBuffer + read_size(tBuffer) <= STREAMING_CHUNK_DURATION
  /\ (tRead > 0 \/ tEnd \in {"eof", "BrokenPipeError", "Exception"}) =>
       tRequest \in 1..STREAMING_BUFFER_SIZE

C35_Witness ==
  /\ tPhase = "loop" /\ tBuffer = STREAMING_CHUNK_DURATION - 1
  /\ tRequest = STREAMING_BUFFER_SIZE /\ read_size(tBuffer) = 1
  /\ tOffset = STREAMING_CHUNK_DURATION

\* C32: once the fallback is entered in an attempt, nothing streaming
\* accumulated survives: the chunk count is 0 from then on, text and
\* segments are present only if the whole-file transcription produced them,
\* and the result of the attempt reports chunks_processed = 0; the result's
\* processing_mode is "fallback" exactly when the fallback was entered in
\* that attempt
C32_FallbackDiscardsStreaming ==
  [][ /\ (ev'.fallbackEntered /\ attempt' = attempt) =>
           /\ L'.chunks_count = 0
           /\ L'.transcription_text =>
                \/ pc = "fallback_transcribe"
                \/ ev.fallbackEntered /\ L.transcription_text
           /\ L'.all_segments =>
                \/ pc = "fallback_transcribe"
                \/ ev.fallbackEntered /\ L.all_segments
      /\ (kind = "youtube" /\ pc = "cleanup" /\ pc' = "done") =>
           /\ result'.processing_mode =
                (IF ev.fallbackEntered THEN "fallback" ELSE "streaming")
           /\ ev.fallbackEntered =>
                /\ result'.chunks_processed = 0
                /\ L.chunks_count = 0 ]_vars

C32_Witness ==
  /\ kind = "youtube" /\ pc = "fallback_audio" /\ ev.fallbackEntered
  /\ ev.transcoderOk /\ timedOut
  /\ L.chunks_count = 0 /\ ~L.transcription_text /\ ~L.all_segments

\* the video file an attempt holds for the upload
VideoOnHand ==
  IF kind = "youtube" THEN L.final_video_path ELSE L.video_path

Terminated == jobState \in {"succeeded", "failed"} /\ pc = "done"

\* C34: when an update-existing job has ended and none of its writes to the
\* row was refused by the catalog, the row's status column holds Complete
\* or Error
C34_TerminalStatusOnly ==
  (Terminated /\ UpdateExisting /\ ~ev.writeRefused) =>
    row.status \in {"Complete", "Error"}

\* the entries of the field map that write column c: a key the create path
\* has a builder for, with a value that is not None
Writers(c) ==
  { i \in DOMAIN cw_field_map :
      /\ cw_field_map[i][2] = c
      /\ property_type_create[cw_field_map[i][1]] # "skipped"
      /\ cw_data[cw_field_map[i][1]] # "None" }

C38_ParagraphsWithinLimit ==
  dropdown_return = "True" =>
    \A i \in DOMAIN children :
      children[i] # <<>> /\ Len(children[i]) <= max_chars

\* C39: the sanitised title has the length of the title, holds only ASCII
\* letters, ASCII digits, blank, underscore and hyphen, keeps every such
\* character of the title where it was, and is a fixed point of
\* sanitize_filename
C39_SanitizedIsAsciiSafe ==
  sanitized =>
    /\ Len(safe_title) = Len(filename)
    /\ \A i \in DOMAIN safe_title :
         /\ safe_title[i] \in {"a", "Z", "7", " ", "-", "_"}
         /\ filename[i] \in {"a", "Z", "7", " ", "-", "_"} =>
              safe_title[i] = filename[i]
    /\ sanitize_filename(safe_title) = safe_title

\* C37: in both tasks an upload or a publication call is made only by an
\* attempt that holds the per-video folder, created under the parent folder
\* override or the policy's folder: an attempt with neither, or whose
\* folder creation failed, has ended before
C37_FolderBeforeUploads ==
  [][ (/\ attempt' = attempt
       /\ \/ ev'.uploads # ev.uploads
          \/ ev'.creates > ev.creates
          \/ ev'.updates > ev.updates) =>
        (parentFolder # "none" /\ L.drive_folder_id) ]_vars

====
